---- MODULE Spec2Model ----
(***************************************************************************)
(* Model of eole's dynamic data pipeline (eole/inputters/                  *)
(* dynamic_iterator.py): the mixing strategies (SequentialMixer,           *)
(* WeightedMixer), the batch assembler (DynamicDatasetIter.batch_iter),    *)
(* the iterator itself, its construction and the device relay.             *)
(*                                                                         *)
(* Several specifications share the module:                                *)
(*   SpecMix      - construction and iteration of one mixing strategy;     *)
(*   SpecBatch    - one run of batch_iter over one bucket;                 *)
(*   SpecIter     - _init_datasets and one iteration of the iterator;      *)
(*   SpecIterFair - SpecIter with a consumer that keeps asking;            *)
(*   SpecBuild    - __init__, build_dynamic_dataset_iter and the workers'  *)
(*                  _init_datasets in the processes of one job;            *)
(*   SpecRelay    - OnDeviceDatasetIter over a stream of tensor batches;   *)
(*   SpecWorkers  - the replicas of one iterator in the DataLoader's       *)
(*                  worker processes, each running _init_datasets and      *)
(*                  iterating on its own;                                  *)
(*   SpecGather   - all_gather_list (eole/utils/distributed.py) called by  *)
(*                  every process of a job;                                *)
(*   SpecRegistry - the transform registry (eole/transforms/__init__.py);  *)
(*   SpecHandler  - ErrorHandler (eole/utils/distributed.py): its listener *)
(*                  thread, its signal handler and the failing children;   *)
(*   SpecHandlerFair - SpecHandler with threads and signals that get to    *)
(*                  run;                                                   *)
(*   SpecPasses   - one iterator iterated pass after pass;                 *)
(*   SpecRamp     - long bucket-size ramps, with a consumer that keeps     *)
(*                  asking;                                                *)
(*   SpecHeader   - all_gather_list with long payloads, the size header    *)
(*                  only;                                                  *)
(*   SpecSaver    - TrainingModelSaver (eole/models/model_saver.py): the   *)
(*                  step directories kept by save;                         *)
(*   SpecOptim    - Optimizer (eole/utils/optimizers.py): the step         *)
(*                  counters.                                              *)
(***************************************************************************)
EXTENDS Naturals, Integers, Sequences, FiniteSets, TLC

VARIABLES
    \* ---- mixing strategy (MixingStrategy / SequentialMixer / WeightedMixer)
    mkind,        \* the class being constructed
    iterables,    \* constructor argument: name -> re-iterable list of items
    weights,      \* constructor argument: ordered dict, a list of <<name, weight>>
    mixer,        \* the constructed object's class, or NoMixer
    pc,           \* control state of the mixer and of its __iter__ generator
    _iterators,   \* WeightedMixer._iterators: name -> items already drawn
    _counts,      \* WeightedMixer._counts: name -> number of (re)starts
    slot,         \* names already taken from _iter_datasets() / cycle(...)
    sub,          \* SequentialMixer: items already taken by "yield from"
    item,         \* WeightedMixer.__iter__: the local variable item
    pending,      \* WeightedMixer.__iter__: suspended in "finally" with
                  \* StopIteration in flight
    out,          \* the items the generator has yielded, in order
    \* ---- batch assembler (DynamicDatasetIter.batch_iter)
    task,                 \* self.task
    batch_size,           \* argument batch_size
    batch_type,           \* argument batch_type
    batch_size_multiple,  \* argument batch_size_multiple
    data,                 \* the (ex, indice) pairs consumed so far, in order
    minibatch,            \* local minibatch
    maxlen,               \* local maxlen
    size_so_far,          \* local size_so_far
    seen,                 \* local seen
    batches,              \* the minibatches yielded so far, in order
    warnings,             \* calls of logger.warning so far
    final_yield,          \* TRUE once the trailing "if minibatch: yield" ran
    bpc,                  \* control state of batch_iter
    \* ---- dynamic dataset iterator (DynamicDatasetIter)
    corpora_info,           \* ordered list of <<name, weight>> of the corpora
    bucket_size,            \* self.bucket_size
    bucket_size_init,       \* self.bucket_size_init
    bucket_size_increment,  \* self.bucket_size_increment
    rejected,               \* the raw examples the transform step rejects
    init_iterators,         \* self.init_iterators
    _bucket_size,           \* _bucketing: the local _bucket_size
    bucket,                 \* _bucketing: the local bucket
    bucket_idx,             \* self.bucket_idx
    flushed,                \* the buckets _bucketing has yielded, in order
    stream,                 \* bucket_idx of every pair __iter__ has yielded
    p_batch,                \* the minibatches yielded for the last bucket
    kpc,                    \* control state of the iterator
    init_runs,              \* how many times _init_datasets has run on it
    \* ---- build_dynamic_dataset_iter in the processes of one job
    corpora,                \* what get_corpora returns: "None" or "corpora"
    has_training,           \* hasattr(config, "training")
    num_workers,            \* config.training.num_workers
    stride,                 \* the stride argument (the same in every process)
    skip_empty_level,       \* config.skip_empty_level
    left_pad,               \* config.model.left_pad
    procs,                  \* per offset argument: what the process has built
    readers,                \* the build_corpora_iters calls made so far
    \* ---- device relay (OnDeviceDatasetIter)
    data_iter,              \* the (tensor_batch, bucket_idx) pairs to relay
    device,                 \* self.device, the target device
    relayed,                \* how many pairs the relay has taken
    relay_out,              \* the pairs the relay has yielded
    rpc,                    \* control state of the relay
    \* ---- worker replicas of one iterator (DataLoader workers)
    files,                  \* name -> number of examples in the corpus file
    offset,                 \* self.offset of the replicated iterator
    replicas,               \* worker id -> the state of that worker's replica
    worker,                 \* the worker whose replica is running
    \* ---- all_gather_list in the processes of one job
    world_size,             \* torch.distributed.get_world_size()
    max_size,               \* argument max_size (the same in every process)
    enc_size,               \* rank -> len(pickle.dumps(data))
    in_buffer,              \* rank -> all_gather_list._in_buffer, or NoBuffer
    out_buffers,            \* rank -> all_gather_list._out_buffers, or NoBuffer
    results,                \* rank -> what the call has returned so far
    collectives,            \* how many all_gather collectives have run
    gpc,                    \* rank -> control state of its call
    \* ---- transform registry (eole/transforms/__init__.py)
    AVAILABLE_TRANSFORMS,   \* the module's dict: name -> class
    cls_name,               \* class -> its name attribute, where one is set
    attempts,               \* the register_transform(name)(cls) calls made
    got,                    \* the last get_transforms_cls call and its outcome
    \* ---- ErrorHandler (eole/utils/distributed.py) in the parent process
    error_queue,            \* self.error_queue: the (rank, traceback) items
    children_pids,          \* self.children_pids
    child,                  \* child -> unspawned, running, failed, interrupted
    interrupted,            \* the pids that os.kill(pid, SIGINT) was called on
    lpc,                    \* control state of the error_listener thread
    held,                   \* error_listener: (rank, original_trace)
    sigusr1,                \* SIGUSR1 is pending for the parent process
    hpc,                    \* main thread: main, get (in signal_handler), raised
    raised,                 \* the message of the exception signal_handler raised
    \* ---- TrainingModelSaver (eole/models/model_saver.py), rank 0
    keep_checkpoint,        \* self.keep_checkpoint
    last_saved_step,        \* self.last_saved_step: <<>> is None, else <<step>>
    step_dir,               \* self.step_dir: <<>> is None, else <<step>>
    checkpoint_queue,       \* self.checkpoint_queue: the steps of its step dirs
    disk,                   \* the steps whose directory exists in model_path
    saves,                  \* the save(step) calls made, and whether they saved
    \* ---- Optimizer (eole/utils/optimizers.py)
    _training_step,         \* self._training_step
    _decay_step,            \* self._decay_step
    _optimizer,             \* state of the wrapped optimizer: steps it has made
    snapshots,              \* the dicts state_dict() has returned
    calls                   \* the calls made on the optimizer

mixVars == <<mkind, iterables, weights, mixer, pc, _iterators, _counts, slot,
             sub, item, pending, out>>
batchVars == <<task, batch_size, batch_type, batch_size_multiple, data,
               minibatch, maxlen, size_so_far, seen, batches, warnings,
               final_yield, bpc>>
iterVars == <<corpora_info, bucket_size, bucket_size_init,
              bucket_size_increment, rejected, init_iterators, _bucket_size,
              bucket, bucket_idx, flushed, stream, p_batch, kpc, init_runs>>
buildVars == <<corpora, has_training, num_workers, stride, skip_empty_level,
               left_pad, procs, readers>>
relayVars == <<data_iter, device, relayed, relay_out, rpc>>
workerVars == <<files, offset, replicas, worker>>
gatherVars == <<world_size, max_size, enc_size, in_buffer, out_buffers,
                results, collectives, gpc>>
registryVars == <<AVAILABLE_TRANSFORMS, cls_name, attempts, got>>
handlerVars == <<error_queue, children_pids, child, interrupted, lpc, held,
                 sigusr1, hpc, raised>>
saverVars == <<keep_checkpoint, last_saved_step, step_dir, checkpoint_queue,
               disk, saves>>
optimVars == <<_training_step, _decay_step, _optimizer, snapshots, calls>>
toolVars == <<saverVars, optimVars>>
restVars == <<workerVars, gatherVars, registryVars, handlerVars, toolVars>>
vars == <<mixVars, batchVars, iterVars, buildVars, relayVars, restVars>>

----------------------------------------------------------------------------
(* Bounds of the model *)

MaxSrcItems == 2      \* longest source (number of examples in one corpus)
MaxWeight == 2        \* largest corpus weight
MaxDraws == 6         \* items drawn from the (infinite) WeightedMixer
MaxBucketLen == 4     \* longest bucket handed to batch_iter
MaxBatchSize == 4     \* largest batch_size budget (besides the scenario's)
MaxBucketSize == 3    \* largest bucket_size and bucket_size_init
MaxBuckets == 6       \* buckets drawn from an infinite (training) stream
MaxStride == 2        \* largest stride argument (number of processes)
MaxWorkers == 2       \* largest configured num_workers
MaxRelayLen == 2      \* most pairs in the relay's input
MaxListLen == 2       \* most tensors in a list-valued field

Names == {"A", "B"}
NoMixer == "None"
NoItem == <<>>

----------------------------------------------------------------------------
(* Mixing strategies *)

\* a source's contents: its i-th example is <<name, i>>
Source(n, len) == [i \in 1..len |-> <<n, i>>]

IterablesDomain ==
    UNION {{[n \in S |-> Source(n, lens[n])] : lens \in [S -> 0..MaxSrcItems]}
           : S \in SUBSET Names}

\* ordered dicts name -> weight: lists of <<name, weight>> with distinct names
WeightsDomain ==
    {ws \in UNION {[1..k -> Names \X (0..MaxWeight)] : k \in 0..Cardinality(Names)}
        : \A i, j \in DOMAIN ws : ws[i][1] = ws[j][1] => i = j}

Keys(ws) == {ws[i][1] : i \in DOMAIN ws}

\* mutant of ValidIterable: accepts iterables that cover the weights' names
ValidIterableSubset(iters, ws) == Keys(ws) \subseteq DOMAIN iters

\* MixingStrategy._valid_iterable: FALSE stands for the ValueError
ValidIterable(iters, ws) == ~(DOMAIN iters # Keys(ws))

RECURSIVE Repeat(_, _)
Repeat(x, n) == IF n <= 0 THEN <<>> ELSE <<x>> \o Repeat(x, n - 1)

\* mutant of IterDatasets: every name once, whatever its weight
RECURSIVE IterDatasetsOnce(_)
IterDatasetsOnce(ws) ==
    IF ws = <<>> THEN <<>> ELSE <<ws[1][1]>> \o IterDatasetsOnce(Tail(ws))

\* _iter_datasets: the names in weights.items() order, each range(weight) times
RECURSIVE IterDatasets(_)
IterDatasets(ws) ==
    IF ws = <<>> THEN <<>>
    ELSE Repeat(ws[1][1], ws[1][2]) \o IterDatasets(Tail(ws))

\* mutant of ResetIter: the restart is not counted
ResetIterUncounted(its, cnts, n) ==
    [iters |-> [its EXCEPT ![n] = 0], counts |-> cnts]

\* mutant of ResetIter: the exhausted iterator is kept
ResetIterStale(its, cnts, n) ==
    [iters |-> its, counts |-> [cnts EXCEPT ![n] = @ + 1]]

\* WeightedMixer._reset_iter: a fresh iterator, one more (re)start counted
ResetIter(its, cnts, n) ==
    [iters  |-> [its EXCEPT ![n] = 0],
     counts |-> [cnts EXCEPT ![n] = @ + 1]]

MixInit ==
    /\ mkind \in {"SequentialMixer", "WeightedMixer"}
    /\ iterables \in IterablesDomain
    /\ weights \in WeightsDomain
    /\ mixer = NoMixer
    /\ pc = "new"
    /\ _iterators = <<>>
    /\ _counts = <<>>
    /\ slot = 0
    /\ sub = 0
    /\ item = NoItem
    /\ pending = FALSE
    /\ out = <<>>

\* kind(iters, ws): MixingStrategy.__init__ / WeightedMixer.__init__
ConstructWith(kind, iters, ws) ==
    IF ValidIterable(iters, ws)
    THEN /\ mixer' = kind
         /\ pc' = "ready"
         /\ IF kind = "WeightedMixer"
            THEN \* get(ds_name, 0) + 1 after a fresh iter() for every name
                 LET zero == [n \in DOMAIN iters |-> 0]
                 IN /\ _iterators' = zero
                    /\ _counts' = [n \in DOMAIN iters |->
                                     ResetIter(zero, zero, n).counts[n]]
            ELSE UNCHANGED <<_iterators, _counts>>
    ELSE /\ pc' = "ValueError"
         /\ UNCHANGED <<mixer, _iterators, _counts>>

\* the mixer is constructed from the arguments
Construct ==
    /\ pc = "new"
    /\ ConstructWith(mkind, iterables, weights)
    /\ UNCHANGED <<mkind, iterables, weights, slot, sub, item, pending, out>>

\* first position >= k of the name list whose iterable is not empty
RECURSIVE NextNonEmpty(_, _)
NextNonEmpty(ds, k) ==
    IF k > Len(ds) THEN k
    ELSE IF Len(iterables[ds[k]]) > 0 THEN k
    ELSE NextNonEmpty(ds, k + 1)

\* one next() on SequentialMixer.__iter__
SeqNext ==
    /\ pc = "ready"
    /\ mixer = "SequentialMixer"
    /\ LET ds == IterDatasets(weights)
       IN IF slot >= 1 /\ sub < Len(iterables[ds[slot]])
          THEN /\ out' = Append(out, iterables[ds[slot]][sub + 1])
               /\ sub' = sub + 1
               /\ UNCHANGED <<slot, pc>>
          ELSE LET k == NextNonEmpty(ds, slot + 1)
               IN IF k > Len(ds)
                  THEN /\ pc' = "StopIteration"
                       /\ slot' = Len(ds)
                       /\ sub' = 0
                       /\ UNCHANGED out
                  ELSE /\ out' = Append(out, iterables[ds[k]][1])
                       /\ slot' = k
                       /\ sub' = 1
                       /\ UNCHANGED pc
    /\ UNCHANGED <<mkind, iterables, weights, mixer, _iterators, _counts,
                   item, pending>>

\* one next() on WeightedMixer.__iter__
WeightedStep ==
    /\ pc = "ready"
    /\ mixer = "WeightedMixer"
    /\ LET ds == IterDatasets(weights)
       IN IF pending
          THEN \* resumed inside "finally": the StopIteration in flight leaves
               \* the generator, which turns it into a RuntimeError
               /\ pc' = "RuntimeError"
               /\ pending' = FALSE
               /\ UNCHANGED <<_iterators, _counts, slot, item, out>>
          ELSE IF ds = <<>>
          THEN \* cycle() of nothing ends at once
               /\ pc' = "StopIteration"
               /\ UNCHANGED <<_iterators, _counts, slot, item, pending, out>>
          ELSE LET n == ds[(slot % Len(ds)) + 1]
               IN /\ slot' = slot + 1
                  /\ IF _iterators[n] < Len(iterables[n])
                     THEN /\ item' = iterables[n][_iterators[n] + 1]
                          /\ _iterators' = [_iterators EXCEPT ![n] = @ + 1]
                          /\ out' = Append(out, item')
                          /\ UNCHANGED <<_counts, pending, pc>>
                     ELSE LET r == ResetIter(_iterators, _counts, n)
                          IN /\ _counts' = r.counts
                             /\ IF r.iters[n] < Len(iterables[n])
                                THEN /\ item' = iterables[n][r.iters[n] + 1]
                                     /\ _iterators' = [r.iters EXCEPT ![n] = @ + 1]
                                     /\ out' = Append(out, item')
                                     /\ UNCHANGED <<pending, pc>>
                                ELSE \* next() raises again in the handler;
                                     \* "finally: yield item" still runs
                                     /\ _iterators' = r.iters
                                     /\ IF item = NoItem
                                        THEN /\ pc' = "UnboundLocalError"
                                             /\ UNCHANGED <<item, pending, out>>
                                        ELSE /\ out' = Append(out, item)
                                             /\ pending' = TRUE
                                             /\ UNCHANGED <<item, pc>>
    /\ UNCHANGED <<mkind, iterables, weights, mixer, sub>>

\* the consumer of the infinite stream draws at most MaxDraws items
WeightedNext == Len(out) < MaxDraws /\ WeightedStep

----------------------------------------------------------------------------
(* Claims about the mixing strategies *)

IsPrefix(s, t) == Len(s) <= Len(t) /\ \A i \in 1..Len(s) : s[i] = t[i]

RECURSIVE RepeatSeq(_, _)
RepeatSeq(s, n) == IF n <= 0 THEN <<>> ELSE s \o RepeatSeq(s, n - 1)

\* the contents of every source, weight times, in the weights' order
RECURSIVE SeqExpected(_)
SeqExpected(ws) ==
    IF ws = <<>> THEN <<>>
    ELSE RepeatSeq(iterables[ws[1][1]], ws[1][2]) \o SeqExpected(Tail(ws))

RECURSIVE SumWeights(_)
SumWeights(ws) == IF ws = <<>> THEN 0 ELSE ws[1][2] + SumWeights(Tail(ws))

\* the name at offset r (from 0) of one round of the weight-repeated list
RECURSIVE NameAt(_, _)
NameAt(ws, r) ==
    IF r < ws[1][2] THEN ws[1][1] ELSE NameAt(Tail(ws), r - ws[1][2])

\* the source the k-th emitted item (k from 1) belongs to
SlotName(k) == NameAt(weights, (k - 1) % SumWeights(weights))

\* how many of the first k - 1 slots belong to the source of slot k
EarlierDraws(k) ==
    Cardinality({i \in 1..(k - 1) : SlotName(i) = SlotName(k)})

Constructed == pc # "new" /\ pc # "ValueError"
AllNonEmpty == \A n \in DOMAIN iterables : Len(iterables[n]) > 0
AllPositive == weights # <<>> /\ \A i \in DOMAIN weights : weights[i][2] > 0
Failed == pc \in {"UnboundLocalError", "RuntimeError"}

\* C1: constructing a mixer whose iterable names differ from its weight
\* names fails with ValueError and leaves no mixer; with the same names the
\* construction succeeds and gives a mixer of the requested class.
C1_KeyMismatchFails ==
    pc # "new" =>
        IF DOMAIN iterables = Keys(weights)
        THEN pc # "ValueError" /\ mixer = mkind
        ELSE pc = "ValueError" /\ mixer = NoMixer /\ out = <<>>

C1_Witness ==
    /\ pc = "ValueError"
    /\ weights # <<>>
    /\ Keys(weights) \subseteq DOMAIN iterables

\* C2: a SequentialMixer emits exactly the concatenation, in the weights'
\* name order with each name repeated weight times, of each source's full
\* contents and then stops; what it has emitted so far is a prefix of that.
C2_SequentialConcatenation ==
    mixer = "SequentialMixer" =>
        /\ IsPrefix(out, SeqExpected(weights))
        /\ pc = "StopIteration" => out = SeqExpected(weights)

C2_Witness ==
    /\ mixer = "SequentialMixer"
    /\ pc = "StopIteration"
    /\ Len(weights) = 2
    /\ weights[1][2] = 2
    /\ Len(iterables[weights[1][1]]) = 2
    /\ weights[2][2] = 1
    /\ Len(out) = 5

\* C3 (state part): with positive weights over non-empty sources the
\* WeightedMixer's stream never ends and never fails.
C3_NeverEnds ==
    (mixer = "WeightedMixer" /\ AllPositive /\ AllNonEmpty) =>
        pc = "ready" /\ ~pending

\* C3 (step part): a source's count never decreases; a draw raises the count
\* of the drawn source by exactly one when its iterator is exhausted and
\* changes no other count.
C3_CountStep ==
    (mixer = "WeightedMixer" /\ AllPositive /\ AllNonEmpty /\ out' # out) =>
        \A n \in DOMAIN _counts :
            _counts'[n] =
                IF n = SlotName(Len(out) + 1)
                   /\ _iterators[n] = Len(iterables[n])
                THEN _counts[n] + 1
                ELSE _counts[n]

\* C3: for a WeightedMixer with positive weights over non-empty sources no
\* draw ends the stream or raises, and every restart count grows by exactly
\* one when its source is found exhausted and is otherwise unchanged.
C3_WeightedInfiniteProgress == []C3_NeverEnds /\ [][C3_CountStep]_vars

C3_Witness ==
    /\ mixer = "WeightedMixer"
    /\ AllPositive
    /\ \E s, l \in DOMAIN iterables :
          /\ 0 < Len(iterables[s])
          /\ Len(iterables[s]) < Len(iterables[l])
          /\ Len(out) >= 3 * Len(iterables[s])
          /\ _counts[s] >= 3
          /\ _counts[l] >= 2

\* C4: with non-empty sources the k-th item a WeightedMixer emits is the
\* next item, wrapping around, of the source named at position k mod W of
\* the weight-repeated name list, also on a draw that re-created the source.
C4_SlotOrder ==
    (mixer = "WeightedMixer" /\ AllNonEmpty) =>
        \A k \in 1..Len(out) :
            LET n == SlotName(k)
            IN out[k] = iterables[n][(EarlierDraws(k) % Len(iterables[n])) + 1]

C4_Witness ==
    /\ mixer = "WeightedMixer"
    /\ AllNonEmpty
    /\ Len(weights) = 2
    /\ weights[1][2] = 2
    /\ weights[2][2] = 1
    /\ Len(iterables[weights[1][1]]) = 1
    /\ Len(out) > SumWeights(weights)
    /\ _counts[weights[1][1]] >= 3

\* C5: with one empty source among non-empty ones the WeightedMixer keeps
\* going: it does not fail and it emits no stale item for the empty source.
C5_EmptySourceProgress ==
    (/\ mixer = "WeightedMixer"
     /\ AllPositive
     /\ \E e \in DOMAIN iterables :
           /\ Len(iterables[e]) = 0
           /\ DOMAIN iterables # {e}
           /\ \A n \in DOMAIN iterables \ {e} : Len(iterables[n]) > 0) =>
        /\ ~Failed
        /\ ~pending
        /\ \A k \in 1..Len(out) : out[k][1] = SlotName(k)

AllZero == \A i \in DOMAIN weights : weights[i][2] = 0
ZeroWeighted == {weights[i][1] : i \in {j \in DOMAIN weights : weights[j][2] = 0}}

\* C36 (all weights 0): nothing is emitted, and the first draw ends the
\* iteration
C36_AllZeroEnds ==
    (mixer = "WeightedMixer" /\ AllZero) =>
        /\ out = <<>>
        /\ pc \in {"ready", "StopIteration"}
        /\ ~pending

C36_EndsAtOnce ==
    (mixer = "WeightedMixer" /\ AllZero /\ pc = "ready"
     /\ mixVars' # mixVars) =>
        pc' = "StopIteration" /\ out' = <<>>

\* C36 (weight 0 among positive weights): the source is never drawn from and
\* never restarted, its count stays at 1
C36_ZeroSourceUntouched ==
    (mixer = "WeightedMixer" /\ ~AllZero) =>
        \A n \in ZeroWeighted :
            /\ _counts[n] = 1
            /\ _iterators[n] = 0
            /\ \A k \in 1..Len(out) : out[k][1] # n

C36_WitnessAllZero ==
    /\ mixer = "WeightedMixer"
    /\ weights # <<>>
    /\ AllZero
    /\ pc = "StopIteration"
    /\ out = <<>>

----------------------------------------------------------------------------
(* Batch assembler: DynamicDatasetIter.batch_iter *)

Texts == {"a", "b"}
Tasks == {"train", "valid", "infer"}      \* CorpusTask.TRAIN / VALID / INFER
BatchTypes == {"sents", "tokens"}
Multiples == {1, 2, 3}
BatchSizes == (1..MaxBatchSize) \cup {10}

\* numericalized examples: src is the raw source text, nsrc = len(src_ids),
\* ntgt = len(tgt_ids) when the example has a target
Examples ==
    {[src |-> t, nsrc |-> 1] : t \in Texts}
    \cup {[src |-> t, nsrc |-> 2, ntgt |-> 1] : t \in Texts}
    \cup {[src |-> t, nsrc |-> 1, ntgt |-> 3] : t \in Texts}

Max(a, b) == IF a >= b THEN a ELSE b

\* batch_size_fn
BatchSizeFn(type, nbsents, mlen) ==
    IF type = "sents" THEN nbsents ELSE nbsents * mlen

\* max_src_tgt
MaxSrcTgt(ex) ==
    IF "ntgt" \in DOMAIN ex THEN Max(ex.nsrc, ex.ntgt) ELSE ex.nsrc

\* max([max_src_tgt(ex) for ex, ind in minibatch])
RECURSIVE MaxLenOf(_)
MaxLenOf(mb) ==
    IF mb = <<>> THEN 0 ELSE Max(MaxSrcTgt(mb[1][1]), MaxLenOf(Tail(mb)))

\* mutant of KeepExample: duplicates are dropped whatever the task
KeepExampleAnyTask(t, src, sn) == src \notin sn

\* mutant of KeepExample: nothing is ever dropped
KeepExampleAlways(t, src, sn) == TRUE

\* the test "src not in seen or (self.task != CorpusTask.TRAIN)"
KeepExample(t, src, sn) == src \notin sn \/ t # "train"

\* mutant of Overflowed: the multiple is taken of the whole count
OverflowedWholeCount(size, bsize, nbsents, m) ==
    LET over == IF size > bsize THEN 1 ELSE 0
    IN IF m > 1 THEN over + (nbsents % m) ELSE over

\* mutant of Overflowed: an over-budget example is not held back
OverflowedNoExcess(size, bsize, nbsents, m) ==
    IF m > 1 THEN nbsents % m ELSE 0

\* overflowed, as computed once size_so_far >= batch_size
Overflowed(size, bsize, nbsents, m) ==
    LET over == IF size > bsize THEN 1 ELSE 0
    IN IF m > 1 THEN over + ((nbsents - over) % m) ELSE over

\* mutant of Carried: the first examples are carried instead of the last
CarriedHead(mb, o) == SubSeq(mb, 1, IF o < Len(mb) THEN o ELSE Len(mb))

\* minibatch[-overflowed:] (a slice is clamped to the list)
Carried(mb, o) == SubSeq(mb, Max(Len(mb) - o, 0) + 1, Len(mb))

\* mutant of Emitted: the whole minibatch is emitted, the carried part too
EmittedWhole(mb, o) == mb

\* minibatch[:-overflowed] (a slice is clamped to the list)
Emitted(mb, o) == SubSeq(mb, 1, Max(Len(mb) - o, 0))

\* mutant of WarnAndKeep: the accumulated examples are dropped
WarnAndDrop(grown) ==
    [minibatch |-> <<>>, maxlen |-> 0, size_so_far |-> 0, seen |-> {},
     yielded |-> <<>>, warned |-> 1]

\* "if overflowed == nbsents": logger.warning(...) and nothing else
WarnAndKeep(grown) == [grown EXCEPT !.warned = 1]

\* one pass of the loop body for the pair p = (ex, indice), from the locals
\* st; yielded is the list of minibatches yielded during the pass (none or
\* one)
BatchStepOn(st, p) ==
    LET ex == p[1]
        same == [minibatch |-> st.minibatch, maxlen |-> st.maxlen,
                 size_so_far |-> st.size_so_far, seen |-> st.seen,
                 yielded |-> <<>>, warned |-> 0]
    IN IF ~KeepExample(task, ex.src, st.seen) THEN same
       ELSE
        LET sn == st.seen \cup {ex.src}
            mb == Append(st.minibatch, p)
            nbsents == Len(mb)
            ml == Max(MaxSrcTgt(ex), st.maxlen)
            size == BatchSizeFn(batch_type, nbsents, ml)
            grown == [minibatch |-> mb, maxlen |-> ml, size_so_far |-> size,
                      seen |-> sn, yielded |-> <<>>, warned |-> 0]
        IN IF size < batch_size THEN grown
           ELSE
            LET o == Overflowed(size, batch_size, nbsents, batch_size_multiple)
            IN IF o = 0
               THEN [minibatch |-> <<>>, maxlen |-> 0, size_so_far |-> 0,
                     seen |-> {}, yielded |-> <<mb>>, warned |-> 0]
               ELSE IF o = nbsents
               THEN WarnAndKeep(grown)
               ELSE
                LET rest == Carried(mb, o)
                IN [minibatch |-> rest,
                    maxlen |-> MaxLenOf(rest),
                    size_so_far |-> BatchSizeFn(batch_type, Len(rest),
                                                MaxLenOf(rest)),
                    seen |-> {},
                    yielded |-> <<Emitted(mb, o)>>,
                    warned |-> 0]

\* the loop body on the locals of the running batch_iter
BatchStep(p) ==
    BatchStepOn([minibatch |-> minibatch, maxlen |-> maxlen,
                 size_so_far |-> size_so_far, seen |-> seen], p)

\* list(batch_iter(d, ...)): the loop over all pairs of d from the locals st,
\* then the trailing "if minibatch: yield minibatch"
RECURSIVE BatchIterFrom(_, _)
BatchIterFrom(st, d) ==
    IF d = <<>>
    THEN IF st.minibatch # <<>> THEN <<st.minibatch>> ELSE <<>>
    ELSE LET r == BatchStepOn(st, d[1])
         IN r.yielded \o BatchIterFrom(r, Tail(d))

BatchIterAll(d) ==
    BatchIterFrom([minibatch |-> <<>>, maxlen |-> 0, size_so_far |-> 0,
                   seen |-> {}], d)

BatchInit ==
    /\ task \in Tasks
    /\ batch_size \in BatchSizes
    /\ batch_type \in BatchTypes
    /\ batch_size_multiple \in Multiples
    /\ data = <<>>
    /\ minibatch = <<>>
    /\ maxlen = 0
    /\ size_so_far = 0
    /\ seen = {}
    /\ batches = <<>>
    /\ warnings = 0
    /\ final_yield = FALSE
    /\ bpc = "loop"

\* "for ex, indice in data": the loop takes the next pair of the bucket
BatchFeed ==
    /\ bpc = "loop"
    /\ Len(data) < MaxBucketLen
    /\ \E ex \in Examples :
         LET p == <<ex, Len(data)>>
             r == BatchStep(p)
         IN /\ data' = Append(data, p)
            /\ minibatch' = r.minibatch
            /\ maxlen' = r.maxlen
            /\ size_so_far' = r.size_so_far
            /\ seen' = r.seen
            /\ batches' = batches \o r.yielded
            /\ warnings' = warnings + r.warned
    /\ UNCHANGED <<task, batch_size, batch_type, batch_size_multiple,
                   final_yield, bpc>>

\* the bucket is exhausted: "if minibatch: yield minibatch"
BatchEnd ==
    /\ bpc = "loop"
    /\ IF minibatch # <<>>
       THEN /\ batches' = Append(batches, minibatch)
            /\ final_yield' = TRUE
       ELSE UNCHANGED <<batches, final_yield>>
    /\ bpc' = "done"
    /\ UNCHANGED <<task, batch_size, batch_type, batch_size_multiple, data,
                   minibatch, maxlen, size_so_far, seen, warnings>>

BatchIdle ==
    /\ task = "train"
    /\ batch_size = 1
    /\ batch_type = "sents"
    /\ batch_size_multiple = 1
    /\ data = <<>>
    /\ minibatch = <<>>
    /\ maxlen = 0
    /\ size_so_far = 0
    /\ seen = {}
    /\ batches = <<>>
    /\ warnings = 0
    /\ final_yield = FALSE
    /\ bpc = "idle"

MixIdle ==
    /\ mkind = "SequentialMixer"
    /\ iterables = <<>>
    /\ weights = <<>>
    /\ mixer = NoMixer
    /\ pc = "idle"
    /\ _iterators = <<>>
    /\ _counts = <<>>
    /\ slot = 0
    /\ sub = 0
    /\ item = NoItem
    /\ pending = FALSE
    /\ out = <<>>

----------------------------------------------------------------------------
(* Claims about the batch assembler *)

RECURSIVE Flatten(_)
Flatten(bs) == IF bs = <<>> THEN <<>> ELSE bs[1] \o Flatten(Tail(bs))

\* the pairs not dropped so far, in the order they were kept
KeptSoFar == Flatten(batches) \o (IF final_yield THEN <<>> ELSE minibatch)

\* len(minibatch) * maxlen(minibatch)
TokenSize(mb) == Len(mb) * MaxLenOf(mb)

IsLastOfBucket(k) == k = Len(batches) /\ final_yield

\* C6: with batch_size_multiple = m > 1 every emitted minibatch, except
\* possibly the one emitted at the end of the bucket, holds a positive
\* multiple of m examples.
C6_BatchSizeMultiple ==
    batch_size_multiple > 1 =>
        \A k \in 1..Len(batches) :
            \/ IsLastOfBucket(k)
            \/ /\ Len(batches[k]) > 0
               /\ Len(batches[k]) % batch_size_multiple = 0

C6_Witness ==
    /\ bpc = "done"
    /\ batch_type = "tokens"
    /\ batch_size_multiple = 2
    /\ Len(batches) = 2
    /\ Len(batches[1]) = 2
    /\ Len(batches[2]) = 2
    /\ ~final_yield

\* C7 as stated: with batch_type = tokens every emitted minibatch is within
\* the token budget unless it holds exactly batch_size_multiple examples.
C7_TokenBudgetExactlyM ==
    batch_type = "tokens" =>
        \A k \in 1..Len(batches) :
            \/ TokenSize(batches[k]) <= batch_size
            \/ Len(batches[k]) = batch_size_multiple

\* C7 amended: with batch_type = tokens every emitted minibatch is within
\* the token budget unless it holds exactly batch_size_multiple examples, or
\* it is the one emitted at the end of the bucket and holds fewer.
C7_TokenBudget ==
    batch_type = "tokens" =>
        \A k \in 1..Len(batches) :
            \/ TokenSize(batches[k]) <= batch_size
            \/ Len(batches[k]) = batch_size_multiple
            \/ IsLastOfBucket(k) /\ Len(batches[k]) < batch_size_multiple

C7_Witness ==
    /\ batch_type = "tokens"
    /\ bpc = "done"
    /\ Len(batches) = 2
    /\ TokenSize(batches[1]) > batch_size
    /\ final_yield
    /\ TokenSize(batches[2]) > batch_size
    /\ Len(batches[2]) < batch_size_multiple

\* C8: outside training the minibatches emitted for a bucket, concatenated
\* in emission order, are exactly the input pairs in input order (while the
\* loop runs: together with the minibatch in progress).
C8_NonTrainCoverage ==
    task # "train" =>
        /\ KeptSoFar = data
        /\ bpc = "done" => Flatten(batches) = data

C8_Witness ==
    /\ task = "infer"
    /\ bpc = "done"
    /\ Len(batches) >= 2
    /\ Len(data) = MaxBucketLen
    /\ \E i, j \in 1..Len(batches[2]) :
          i < j /\ batches[2][i][1].src = batches[2][j][1].src

\* C9 (scenario): source lines a, a, b with batch_size 10, sents, multiple 1
\* give one minibatch: the first and third example in training, all three
\* otherwise.
C9_Scenario ==
    (/\ bpc = "done"
     /\ batch_size = 10
     /\ batch_type = "sents"
     /\ batch_size_multiple = 1
     /\ Len(data) = 3
     /\ data[1][1].src = "a"
     /\ data[2][1].src = "a"
     /\ data[3][1].src = "b") =>
        IF task = "train"
        THEN batches = << <<data[1], data[3]>> >>
        ELSE batches = <<data>>

\* C9 (rule): the loop drops the pair it takes exactly when the task is
\* training and the source text is in seen; otherwise the pair is kept.
C9_DropRule ==
    (bpc = "loop" /\ Len(data') = Len(data) + 1) =>
        LET p == data'[Len(data')]
        IN IF task = "train" /\ p[1].src \in seen
           THEN KeptSoFar' = KeptSoFar
           ELSE KeptSoFar' = Append(KeptSoFar, p)

\* C9: the deduplication scenario of the spec holds, and in general an
\* example is dropped exactly when the task is training and its source text
\* is in the deduplication set.
C9_Deduplication == []C9_Scenario /\ [][C9_DropRule]_vars

C9_Witness ==
    /\ bpc = "done"
    /\ task = "train"
    /\ batch_size = 10
    /\ batch_type = "sents"
    /\ batch_size_multiple = 1
    /\ Len(data) = 3
    /\ data[1][1].src = "a"
    /\ data[2][1].src = "a"
    /\ data[3][1].src = "b"
    /\ Len(batches) = 1
    /\ Len(batches[1]) = 2

\* C10: in training no emitted minibatch holds two examples with the same
\* raw source text.
C10_NoDuplicateInMinibatch ==
    task = "train" =>
        \A k \in 1..Len(batches) :
            \A i, j \in 1..Len(batches[k]) :
                batches[k][i][1].src = batches[k][j][1].src => i = j

\* the number of examples said to be held back when a minibatch of n
\* examples has the size metric size
HeldBack(n, size) ==
    LET over == IF size > batch_size THEN 1 ELSE 0
    IN IF batch_size_multiple > 1
       THEN over + ((n - over) % batch_size_multiple)
       ELSE over

\* the in-progress minibatch is at or over the budget and all of it is to be
\* held back
AllHeld ==
    /\ minibatch # <<>>
    /\ size_so_far >= batch_size
    /\ HeldBack(Len(minibatch), size_so_far) = Len(minibatch)

\* the pair taken by the step
Taken == data'[Len(data')]

\* the step takes a pair and keeps it
TakesAndKeeps ==
    /\ Len(data') = Len(data) + 1
    /\ (task # "train" \/ Taken[1].src \notin seen)

C24_WarnStep ==
    LET mb == Append(minibatch, Taken)
        ml == Max(maxlen, MaxSrcTgt(Taken[1]))
        size == BatchSizeFn(batch_type, Len(mb), ml)
    IN /\ warnings' > warnings <=>
            /\ TakesAndKeeps
            /\ size >= batch_size
            /\ HeldBack(Len(mb), size) = Len(mb)
       /\ warnings' > warnings =>
            /\ batches' = batches
            /\ minibatch' = mb
            /\ maxlen' = ml
            /\ seen' = seen \cup {Taken[1].src}
            /\ bpc' = "loop"
            /\ AllHeld'

C24_HeldEmittedTogether ==
    (AllHeld /\ batches' # batches) =>
        LET last == batches'[Len(batches')]
        IN /\ Len(batches') = Len(batches) + 1
           /\ IsPrefix(minibatch, last)
           /\ \/ Len(last) % batch_size_multiple = 0
              \/ bpc' = "done"

\* C24: when the in-progress minibatch reaches or exceeds the budget and the
\* number of examples to hold back is its whole size, batch_iter emits
\* nothing, raises no error, keeps every accumulated example, the running
\* maxlen and the deduplication set, and goes on; the held examples are
\* emitted later in one minibatch, either one whose count is a multiple of
\* batch_size_multiple or the final one.
C24_WarnKeepsAccumulating ==
    /\ [](bpc \in {"loop", "done"})
    /\ [](bpc = "done" => (minibatch = <<>> \/ final_yield))
    /\ [][C24_WarnStep /\ C24_HeldEmittedTogether]_vars

C24_Witness ==
    /\ warnings >= 2
    /\ Len(batches) = 2
    /\ Len(batches[1]) = batch_size_multiple
    /\ batch_size_multiple > 1
    /\ final_yield
    /\ Len(batches[2]) < batch_size_multiple

\* C25: when batch_iter emits on overflow with 0 < overflowed < count, it
\* emits the first count - overflowed examples of the in-progress minibatch,
\* the next minibatch starts with the last overflowed examples in the same
\* order, maxlen is the maximum over the carried examples only, the size
\* metric is recomputed from them and the deduplication set is empty.
C25_CarryStep ==
    LET mb == Append(minibatch, Taken)
        ml == Max(maxlen, MaxSrcTgt(Taken[1]))
        o == HeldBack(Len(mb), BatchSizeFn(batch_type, Len(mb), ml))
    IN (/\ TakesAndKeeps
        /\ BatchSizeFn(batch_type, Len(mb), ml) >= batch_size
        /\ 0 < o
        /\ o < Len(mb)) =>
            /\ batches' = Append(batches, SubSeq(mb, 1, Len(mb) - o))
            /\ minibatch' = SubSeq(mb, Len(mb) - o + 1, Len(mb))
            /\ maxlen' = MaxLenOf(minibatch')
            /\ size_so_far' = BatchSizeFn(batch_type, o, maxlen')
            /\ seen' = {}

C25_CarryOver == [][C25_CarryStep]_vars

C25_Witness ==
    /\ bpc = "loop"
    /\ Len(batches) = 1
    /\ Len(minibatch) = 2
    /\ seen = {}
    /\ maxlen < MaxLenOf(batches[1])
    /\ minibatch[1][2] < minibatch[2][2]

\* the positions (indice) of a list of pairs grow strictly
Increasing(ps) == \A i, j \in 1..Len(ps) : i < j => ps[i][2] < ps[j][2]

\* every pair of ps is the input pair at its position
FromInput(ps) ==
    \A i \in 1..Len(ps) :
        /\ ps[i][2] + 1 \in 1..Len(data)
        /\ data[ps[i][2] + 1] = ps[i]

\* a step adds to the kept pairs nothing but the pair it takes, and only
\* when that pair passes the deduplication test
C33_KeptOnlyWhenTaken ==
    /\ IsPrefix(KeptSoFar, KeptSoFar')
    /\ KeptSoFar' # KeptSoFar =>
          /\ Len(data') = Len(data) + 1
          /\ KeptSoFar' = Append(KeptSoFar, Taken)
          /\ Taken[1].src \notin seen

\* C33: in training the examples emitted for a bucket form a subsequence of
\* the input: every input example is in at most one emitted minibatch and at
\* most once, the order of the input is kept across the concatenated
\* minibatches, and an example dropped as a duplicate is never emitted later
\* in the bucket.
C33_EmittedSubsequence ==
    /\ [](task = "train" =>
            /\ Increasing(KeptSoFar)
            /\ FromInput(KeptSoFar)
            /\ Increasing(Flatten(batches)))
    /\ [][task = "train" => C33_KeptOnlyWhenTaken]_vars

C33_Witness ==
    /\ task = "train"
    /\ bpc = "done"
    /\ Len(data) = 4
    /\ Len(batches) = 2
    /\ Len(Flatten(batches)) = 3
    /\ Len(batches[1]) = 2
    /\ batches[1][2][2] = 2
    /\ batches[2][1][2] = 3

\* the overflow check of a step that takes and keeps a pair: overflowed is
\* between 0 and the count of the in-progress minibatch
C34_OverflowInRange ==
    LET mb == Append(minibatch, Taken)
        ml == Max(maxlen, MaxSrcTgt(Taken[1]))
        size == BatchSizeFn(batch_type, Len(mb), ml)
        o == Overflowed(size, batch_size, Len(mb), batch_size_multiple)
    IN (TakesAndKeeps /\ size >= batch_size) => (0 <= o /\ o <= Len(mb))

\* C34: for batch_size >= 1 and batch_size_multiple >= 1, at every overflow
\* check 0 <= overflowed <= count, every emitted minibatch is non-empty, and
\* with batch_type = sents every emitted minibatch has at most
\* max(batch_size, batch_size_multiple) examples.
C34_OverflowBounds ==
    /\ [](batch_size >= 1 /\ batch_size_multiple >= 1)
    /\ [](\A k \in 1..Len(batches) :
            /\ Len(batches[k]) > 0
            /\ batch_type = "sents" =>
                  Len(batches[k]) <= Max(batch_size, batch_size_multiple))
    /\ [][C34_OverflowInRange]_vars

C34_Witness ==
    /\ batch_type = "sents"
    /\ batch_size = 2
    /\ batch_size_multiple = 3
    /\ warnings = 2
    /\ Len(batches) = 1
    /\ Len(batches[1]) = 3
    /\ Len(minibatch) = 1

----------------------------------------------------------------------------
(* Dynamic dataset iterator: _init_datasets, _bucketing, __iter__ *)

\* mutant of MixerFor: the infinite mixer for every task
MixerForAlwaysWeighted(t) == "WeightedMixer"

\* _init_datasets: WeightedMixer for the training task, else SequentialMixer
MixerFor(t) == IF t = "train" THEN "WeightedMixer" ELSE "SequentialMixer"

\* datasets_weights: int(corpora_info[ds_name].weight) for every dataset
DatasetsWeights(info) == info

\* _bucketing: the first target
FirstTarget(init, size) == IF init > 0 THEN init ELSE size

\* mutant of NextTarget: the target is clipped to bucket_size at once
NextTargetClipped(cur, size, incr) ==
    IF cur + incr < size THEN cur + incr ELSE size

\* mutant of NextTarget: the target keeps growing past bucket_size
NextTargetGrowing(cur, size, incr) == cur + incr

\* _bucketing: the target after a flush
NextTarget(cur, size, incr) == IF cur < size THEN cur + incr ELSE size

\* mutant of NextBucketIdx: one counter for the replicas of every worker
NextBucketIdxAcrossWorkers(idx) ==
    LET seen_idx == {idx} \cup {replicas[w].bucket_idx : w \in DOMAIN replicas}
    IN 1 + CHOOSE m \in seen_idx : \A x \in seen_idx : x <= m

\* mutant of NextBucketIdx: the index is not advanced
NextBucketIdxSame(idx) == idx

\* _bucketing: self.bucket_idx += 1
NextBucketIdx(idx) == idx + 1

\* mutant of FinalBucket: the partial bucket is lost
FinalBucketLost(b) == <<>>

\* _bucketing: "if bucket: yield ..." once the stream is exhausted
FinalBucket(b) == IF b # <<>> THEN <<b>> ELSE <<>>

\* transform_bucket: a rejected example is dropped or comes back as None
RECURSIVE TransformBucket(_, _)
TransformBucket(b, rej) ==
    IF b = <<>> THEN <<>>
    ELSE (IF b[1] \in rej THEN <<>> ELSE <<b[1]>>)
         \o TransformBucket(Tail(b), rej)

\* numericalize: the i-th example of a corpus has i source tokens; examples
\* carry a target except at inference
Numericalize(it) ==
    IF task = "infer"
    THEN [src |-> it, nsrc |-> it[2]]
    ELSE [src |-> it, nsrc |-> it[2], ntgt |-> IF it[1] = "A" THEN 2 ELSE 1]

\* _tuple_to_json_with_tokIDs
TupleToJson(b) ==
    LET tb == TransformBucket(b, rejected)
    IN [i \in 1..Len(tb) |-> Numericalize(tb[i])]

\* _add_indice
AddIndice(b) == [i \in 1..Len(b) |-> <<b[i], i - 1>>]

\* text_sort_key: source length, then target length when there is a target
SortKey(ex) ==
    IF "ntgt" \in DOMAIN ex THEN <<ex.nsrc, ex.ntgt>> ELSE <<ex.nsrc, 0>>

KeyLess(a, b) == a[1] < b[1] \/ (a[1] = b[1] /\ a[2] < b[2])

\* where a stable sort puts pair x into the sorted list srt
RECURSIVE InsertSorted(_, _, _)
InsertSorted(srt, x, reverse) ==
    IF srt = <<>> THEN <<x>>
    ELSE LET before == IF reverse
                       THEN KeyLess(SortKey(srt[1][1]), SortKey(x[1]))
                       ELSE KeyLess(SortKey(x[1]), SortKey(srt[1][1]))
         IN IF before THEN <<x>> \o srt
            ELSE <<srt[1]>> \o InsertSorted(Tail(srt), x, reverse)

RECURSIVE SortFrom(_, _, _)
SortFrom(srt, rest, reverse) ==
    IF rest = <<>> THEN srt
    ELSE SortFrom(InsertSorted(srt, rest[1], reverse), Tail(rest), reverse)

\* mutant of SortPairs: the list is left in the order it has
SortPairsNot(pairs, reverse) == pairs

\* sorted(pairs, key=sort_key) / pairs.sort(key=sort_key, reverse=True)
SortPairs(pairs, reverse) == SortFrom(<<>>, pairs, reverse)

\* the orders random_shuffler may give to the minibatches
Shuffles(pb) ==
    {[i \in 1..Len(pb) |-> pb[f[i]]] : f \in Permutations(1..Len(pb))}

\* __iter__ for one bucket: what may be yielded for the raw bucket b
YieldsFor(b) ==
    LET pb == BatchIterAll(SortPairs(AddIndice(TupleToJson(b)), FALSE))
    IN IF task = "train"
       THEN {[i \in 1..Len(sh) |-> SortPairs(sh[i], TRUE)] : sh \in Shuffles(pb)}
       ELSE {pb}

\* the configurations of the iterator: [info, lens, size, init, incr, rej,
\* task, btype, bsize, mult]
Corpora1 ==
    {[info |-> <<<<"A", w>>>>, lens |-> [n \in {"A"} |-> l]]
        : w \in 0..MaxWeight, l \in 0..MaxSrcItems}
Corpora2 ==
    {[info |-> <<<<"A", w[1]>>, <<"B", w[2]>>>>,
      lens |-> [n \in Names |-> IF n = "A" THEN l[1] ELSE l[2]]]
        : w \in (0..MaxWeight) \X (0..MaxWeight),
          l \in (0..MaxSrcItems) \X (0..MaxSrcItems)}
BucketConfigs ==
    [size : 1..MaxBucketSize, init : {-1} \cup (1..MaxBucketSize), incr : 0..2]
BatchConfigs == [btype : BatchTypes, bsize : 1..2, mult : 1..2]
Rejections == {{}, {<<"A", 1>>}}

\* every ramp over a few corpora
RampConfigs ==
    {[corp |-> c, bucket |-> b, rej |-> r, task |-> t, batch |-> q]
        : c \in {x \in Corpora1 \cup Corpora2 :
                    /\ \A i \in DOMAIN x.info : x.info[i][2] = 1
                    /\ \A n \in DOMAIN x.lens : x.lens[n] = MaxSrcItems},
          b \in BucketConfigs, r \in Rejections, t \in Tasks,
          q \in BatchConfigs}

\* every choice of corpora under a few ramps
MixConfigs ==
    {[corp |-> c, bucket |-> b, rej |-> r, task |-> t, batch |-> q]
        : c \in Corpora1 \cup Corpora2,
          b \in {x \in BucketConfigs : x.size = 2 /\ x.init + x.incr = 1},
          r \in Rejections, t \in Tasks, q \in BatchConfigs}

\* the spec's scenarios: the ramp 4, 8, 12, 16, ... over a finite stream of
\* 75 examples, and corpora of 5 and 15 examples mixed into buckets of 10
ScenarioConfigs ==
    {[corp |-> [info |-> <<<<"A", 5>>>>, lens |-> [n \in {"A"} |-> 15]],
      bucket |-> [size |-> 16, init |-> 4, incr |-> 4],
      rej |-> {}, task |-> "valid",
      batch |-> [btype |-> "sents", bsize |-> 10, mult |-> 1]],
     [corp |-> [info |-> <<<<"A", 1>>, <<"B", 1>>>>,
                lens |-> [n \in Names |-> IF n = "A" THEN 5 ELSE 15]],
      bucket |-> [size |-> 10, init |-> -1, incr |-> 0],
      rej |-> {}, task |-> "train",
      batch |-> [btype |-> "sents", bsize |-> 10, mult |-> 1]]}

IterConfigs == RampConfigs \cup MixConfigs \cup ScenarioConfigs

\* DynamicDatasetIter.__init__ has run; build_corpora_iters will give the
\* iterables
IterInitFrom(configs) ==
    \E c \in configs :
        /\ corpora_info = c.corp.info
        /\ iterables = [n \in DOMAIN c.corp.lens |-> Source(n, c.corp.lens[n])]
        /\ bucket_size = c.bucket.size
        /\ bucket_size_init = c.bucket.init
        /\ bucket_size_increment = c.bucket.incr
        /\ rejected = c.rej
        /\ task = c.task
        /\ batch_type = c.batch.btype
        /\ batch_size = c.batch.bsize
        /\ batch_size_multiple = c.batch.mult
        /\ mkind = NoMixer
        /\ weights = <<>>
        /\ mixer = NoMixer
        /\ pc = "new"
        /\ _iterators = <<>>
        /\ _counts = <<>>
        /\ slot = 0
        /\ sub = 0
        /\ item = NoItem
        /\ pending = FALSE
        /\ out = <<>>
        /\ data = <<>>
        /\ minibatch = <<>>
        /\ maxlen = 0
        /\ size_so_far = 0
        /\ seen = {}
        /\ batches = <<>>
        /\ warnings = 0
        /\ final_yield = FALSE
        /\ bpc = "idle"
        /\ init_iterators = FALSE
        /\ _bucket_size = 0
        /\ bucket = <<>>
        /\ bucket_idx = 0
        /\ flushed = <<>>
        /\ stream = <<>>
        /\ p_batch = <<>>
        /\ kpc = "new"
        /\ init_runs = 0

IterInit == IterInitFrom(IterConfigs)

\* _init_datasets, with its the iterables that build_corpora_iters returns:
\* a new mixer over new iterators replaces whatever the iterator had
InitDatasetsWith(its) ==
    /\ mkind' = MixerFor(task)
    /\ weights' = DatasetsWeights(corpora_info)
    /\ iterables' = its
    /\ ConstructWith(mkind', its, weights')
    /\ slot' = 0
    /\ sub' = 0
    /\ item' = NoItem
    /\ pending' = FALSE
    /\ out' = <<>>
    /\ init_iterators' = TRUE
    /\ kpc' = "ready"
    /\ init_runs' = init_runs + 1
    /\ UNCHANGED <<batchVars, relayVars>>
    /\ UNCHANGED <<corpora_info, bucket_size, bucket_size_init,
                   bucket_size_increment, rejected, _bucket_size, bucket,
                   bucket_idx, flushed, stream, p_batch>>

\* _init_datasets on a newly constructed iterator
InitDatasets ==
    /\ kpc = "new"
    /\ InitDatasetsWith(iterables)
    /\ UNCHANGED <<buildVars, restVars>>

\* _bucketing yields the raw bucket b and __iter__ yields its minibatches
FlushBucket(b, target) ==
    /\ p_batch' \in YieldsFor(b)
    /\ stream' = stream \o [i \in 1..Len(p_batch') |-> bucket_idx]
    /\ flushed' = Append(flushed, [raw |-> b, num |-> TupleToJson(b),
                                   idx |-> bucket_idx, target |-> target,
                                   nb |-> Len(p_batch')])

\* one pass of "for ex in self.mixer" in _bucketing, with what __iter__ does
\* with a bucket that the pass yields
IterDraw ==
    /\ kpc \in {"ready", "loop"}
    /\ \/ SeqNext
       \/ Len(flushed) < MaxBuckets /\ WeightedStep
    /\ LET target == IF kpc = "ready"
                     THEN FirstTarget(bucket_size_init, bucket_size)
                     ELSE _bucket_size
       IN IF pc' = "StopIteration"
          THEN /\ kpc' = "done"
               /\ _bucket_size' = target
               /\ bucket' = IF kpc = "ready" THEN <<>> ELSE bucket
               /\ IF FinalBucket(bucket') # <<>>
                  THEN FlushBucket(FinalBucket(bucket')[1], target)
                  ELSE UNCHANGED <<flushed, stream, p_batch>>
               /\ UNCHANGED bucket_idx
          ELSE IF pc' # "ready"
          THEN /\ kpc' = pc'
               /\ _bucket_size' = target
               /\ bucket' = IF kpc = "ready" THEN <<>> ELSE bucket
               /\ UNCHANGED <<bucket_idx, flushed, stream, p_batch>>
          ELSE LET b == Append(IF kpc = "ready" THEN <<>> ELSE bucket,
                               out'[Len(out')])
               IN /\ kpc' = "loop"
                  /\ IF Len(b) = target
                     THEN /\ FlushBucket(b, target)
                          /\ bucket_idx' = NextBucketIdx(bucket_idx)
                          /\ bucket' = <<>>
                          /\ _bucket_size' = NextTarget(target, bucket_size,
                                                        bucket_size_increment)
                     ELSE /\ bucket' = b
                          /\ _bucket_size' = target
                          /\ UNCHANGED <<bucket_idx, flushed, stream, p_batch>>
    /\ UNCHANGED <<batchVars, buildVars, relayVars, restVars>>
    /\ UNCHANGED <<corpora_info, bucket_size, bucket_size_init,
                   bucket_size_increment, rejected, init_iterators, init_runs>>

\* iter(data_iter) on an iterator whose last pass has ended: __iter__ calls
\* _bucketing() again, whose "for ex in self.mixer" starts a new generator
\* of the same mixer; self.bucket_idx is the object's and is kept
IterAgain ==
    /\ kpc = "done"
    /\ Len(flushed) < MaxBuckets
    /\ kpc' = "ready"
    /\ pc' = "ready"
    /\ slot' = 0
    /\ sub' = 0
    /\ item' = NoItem
    /\ pending' = FALSE
    /\ out' = <<>>
    /\ UNCHANGED <<mkind, iterables, weights, mixer, _iterators, _counts>>
    /\ UNCHANGED <<corpora_info, bucket_size, bucket_size_init,
                   bucket_size_increment, rejected, init_iterators,
                   _bucket_size, bucket, bucket_idx, flushed, stream, p_batch,
                   init_runs>>
    /\ UNCHANGED <<batchVars, buildVars, relayVars, restVars>>

\* the iterators that are iterated pass after pass: every choice of corpora,
\* one batching
PassConfigs ==
    {c \in MixConfigs :
        /\ c.rej = {}
        /\ c.batch = [btype |-> "sents", bsize |-> 2, mult |-> 1]}

MaxRampSize == 5      \* largest bucket_size of the long ramps
MaxRampIncr == 3      \* largest bucket_size_increment of the long ramps

\* long ramps over one corpus: the training stream never ends, the
\* validation stream is one pass; every bucket gives one minibatch
LongRampConfigs ==
    {[corp |-> [info |-> <<<<"A", 1>>>>, lens |-> [n \in {"A"} |-> MaxSrcItems]],
      bucket |-> b, rej |-> {}, task |-> t,
      batch |-> [btype |-> "sents", bsize |-> 10, mult |-> 1]]
        : b \in [size : 1..MaxRampSize, init : {-1} \cup (1..MaxRampSize),
                 incr : 0..MaxRampIncr],
          t \in {"train", "valid"}}

IterIdle ==
    /\ corpora_info = <<>>
    /\ bucket_size = 1
    /\ bucket_size_init = -1
    /\ bucket_size_increment = 0
    /\ rejected = {}
    /\ init_iterators = FALSE
    /\ _bucket_size = 0
    /\ bucket = <<>>
    /\ bucket_idx = 0
    /\ flushed = <<>>
    /\ stream = <<>>
    /\ p_batch = <<>>
    /\ kpc = "idle"
    /\ init_runs = 0

----------------------------------------------------------------------------
(* Construction: __init__, from_config, build_dynamic_dataset_iter *)

SkipEmptyLevels == {"silent", "warning", "error"}

\* mutant of NewIter: the stride is not validated
NewIterAnyStride(t, st, off, level, lp) ==
    IF level \notin SkipEmptyLevels
    THEN [kind |-> "ValueError"]
    ELSE [kind |-> "DynamicDatasetIter", task |-> t, stride |-> st,
          offset |-> off, skip_empty_level |-> level,
          left_pad |-> (t # "train" /\ lp), init_iterators |-> FALSE,
          bucket_idx |-> 0]

\* mutant of NewIter: left_pad is taken as configured
NewIterPadAsConfigured(t, st, off, level, lp) ==
    IF st <= 0 \/ level \notin SkipEmptyLevels
    THEN [kind |-> "ValueError"]
    ELSE [kind |-> "DynamicDatasetIter", task |-> t, stride |-> st,
          offset |-> off, skip_empty_level |-> level,
          left_pad |-> lp, init_iterators |-> FALSE, bucket_idx |-> 0]

\* DynamicDatasetIter.__init__: the object, or the error raised
NewIter(t, st, off, level, lp) ==
    IF st <= 0
    THEN [kind |-> "ValueError"]
    ELSE IF level \notin SkipEmptyLevels
    THEN [kind |-> "ValueError"]
    ELSE [kind |-> "DynamicDatasetIter", task |-> t, stride |-> st,
          offset |-> off, skip_empty_level |-> level,
          left_pad |-> (t # "train" /\ lp), init_iterators |-> FALSE,
          bucket_idx |-> 0]

\* from_config: the level comes from the config except at inference
FromConfig(t, st, off, level, lp) ==
    NewIter(t, st, off, IF t # "infer" THEN level ELSE "warning", lp)

\* mutant of NoCorpora: a missing corpus is never fatal
NoCorporaIgnored(t) == "None"

\* build_dynamic_dataset_iter: "if corpora is None"
NoCorpora(t) == IF t = "train" THEN "AssertionError" ELSE "None"

\* build_dynamic_dataset_iter: num_workers
ConfigWorkers == IF has_training THEN num_workers ELSE 0

\* mutant of DatasetStride: every further run multiplies the stride again
DatasetStrideCompounded(st, nw) ==
    IF nw > 0 THEN st * nw * (IF init_runs > 0 THEN nw ELSE 1) ELSE st

\* _init_datasets: the stride given to build_corpora_iters
DatasetStride(st, nw) == IF nw > 0 THEN st * nw ELSE st

\* mutant of DatasetOffset: the offset is not scaled by the number of workers
DatasetOffsetUnscaled(off, nw, w) == IF nw > 0 THEN off + w ELSE off

\* _init_datasets: the offset given to build_corpora_iters
DatasetOffset(off, nw, w) == IF nw > 0 THEN off * nw + w ELSE off

\* _init_datasets(w) on the iterator it of the process with offset off
InitReader(it, off, w) ==
    [rank |-> off, worker |-> w,
     stride |-> DatasetStride(it.stride, it.num_workers),
     offset |-> DatasetOffset(it.offset, it.num_workers, w)]

\* the offset arguments of the processes of a job
Ranks(st) == IF st >= 1 THEN 0..(st - 1) ELSE {0}

Unbuilt == [kind |-> "unbuilt"]

BuildInit ==
    /\ corpora \in {"None", "corpora"}
    /\ has_training \in BOOLEAN
    /\ num_workers \in 0..MaxWorkers
    /\ stride \in (-1)..MaxStride
    /\ skip_empty_level \in SkipEmptyLevels \cup {"strict"}
    /\ left_pad \in BOOLEAN
    /\ task \in Tasks
    /\ procs = [o \in Ranks(stride) |-> Unbuilt]
    /\ readers = {}

\* DynamicDatasetIter(...) called directly in the process with offset o
New(o) ==
    /\ procs[o] = Unbuilt
    /\ LET it == NewIter(task, stride, o, skip_empty_level, left_pad)
       IN procs' = [procs EXCEPT ![o] = [kind |-> it.kind, via |-> "new",
                                         it |-> it]]
    /\ UNCHANGED <<corpora, has_training, num_workers, stride,
                   skip_empty_level, left_pad, readers>>

\* build_dynamic_dataset_iter(config, ..., task, stride, offset=o)
Build(o) ==
    /\ procs[o] = Unbuilt
    /\ IF corpora = "None"
       THEN /\ procs' = [procs EXCEPT ![o] = [kind |-> NoCorpora(task),
                                              via |-> "build"]]
            /\ UNCHANGED readers
       ELSE LET made == FromConfig(task, stride, o, skip_empty_level, left_pad)
                it == [n \in DOMAIN made \cup {"num_workers"} |->
                          IF n = "num_workers" THEN ConfigWorkers
                          ELSE made[n]]
            IN IF made.kind = "ValueError"
               THEN /\ procs' = [procs EXCEPT ![o] = [kind |-> "ValueError",
                                                      via |-> "build"]]
                    /\ UNCHANGED readers
               ELSE IF ConfigWorkers = 0 \/ task = "infer"
               THEN /\ procs' = [procs EXCEPT ![o] =
                            [kind |-> "DynamicDatasetIter", via |-> "build",
                             it |-> [it EXCEPT !.init_iterators = TRUE]]]
                    /\ readers' = readers \cup {InitReader(it, o, 0)}
               ELSE /\ procs' = [procs EXCEPT ![o] =
                            [kind |-> "OnDeviceDatasetIter", via |-> "build",
                             it |-> it]]
                    /\ UNCHANGED readers
    /\ UNCHANGED <<corpora, has_training, num_workers, stride,
                   skip_empty_level, left_pad>>

\* the DataLoader starts worker w of the process with offset o:
\* worker_init_fn = data_iter._init_datasets
WorkerInit(o, w) ==
    /\ procs[o].kind = "OnDeviceDatasetIter"
    /\ w \in 0..(procs[o].it.num_workers - 1)
    /\ \A r \in readers : ~(r.rank = o /\ r.worker = w)
    /\ readers' = readers \cup {InitReader(procs[o].it, o, w)}
    /\ UNCHANGED <<corpora, has_training, num_workers, stride,
                   skip_empty_level, left_pad, procs>>

BuildIdle ==
    /\ corpora = "None"
    /\ has_training = FALSE
    /\ num_workers = 0
    /\ stride = 1
    /\ skip_empty_level = "warning"
    /\ left_pad = FALSE
    /\ procs = <<>>
    /\ readers = {}

\* batch_iter is not running; the task is an argument of the build
OnlyTask ==
    /\ data = <<>>
    /\ minibatch = <<>>
    /\ maxlen = 0
    /\ size_so_far = 0
    /\ seen = {}
    /\ batches = <<>>
    /\ warnings = 0
    /\ final_yield = FALSE
    /\ bpc = "idle"
    /\ batch_size = 1
    /\ batch_type = "sents"
    /\ batch_size_multiple = 1

----------------------------------------------------------------------------
(* Device relay: OnDeviceDatasetIter *)

Devices == {"cpu", "cuda:0"}

\* mutant of MetadataKeys: left_pad is not exempt
MetadataKeysShort == {"cid", "ind_in_bucket", "cid_line_number"}

\* the keys __iter__ does not move
MetadataKeys == {"cid", "ind_in_bucket", "cid_line_number", "left_pad"}

\* a field is a tensor, a list of tensors, or plain Python data
Tensor(d) == [is |-> "tensor", dev |-> d]
TensorList(n, d) == [is |-> "list", devs |-> [i \in 1..n |-> d]]
Plain(v) == [is |-> "plain", val |-> v]

\* __iter__: [t.to(self.device) for t in value] or value.to(self.device);
\* plain data has no method "to"
ToDevice(v, d) ==
    IF v.is = "list" THEN [is |-> "list", devs |-> [i \in DOMAIN v.devs |-> d]]
    ELSE IF v.is = "tensor" THEN Tensor(d)
    ELSE [is |-> "AttributeError"]

\* __iter__: the loop over tensor_batch.keys()
Relay(tb, d) ==
    [key \in DOMAIN tb |->
        IF key \notin MetadataKeys THEN ToDevice(tb[key], d) ELSE tb[key]]

\* the tensor batches the workers build on the CPU
TensorBatches ==
    {[key \in {"src_ids", "cid", "tgt_ids"} |->
        IF key = "cid" THEN Plain(c) ELSE Tensor("cpu")] : c \in {"A", "B"}}
    \cup
    {[key \in {"src_ids", "cid", "ind_in_bucket", "cid_line_number",
               "left_pad", "images"} |->
        CASE key = "src_ids" -> Tensor("cpu")
          [] key = "images" -> TensorList(n, "cpu")
          [] key = "left_pad" -> Plain(lp)
          [] OTHER -> Plain("A")] : n \in 0..MaxListLen, lp \in BOOLEAN}

RECURSIVE SeqsUpTo(_, _)
SeqsUpTo(S, n) ==
    IF n = 0 THEN {<<>>}
    ELSE LET shorter == SeqsUpTo(S, n - 1)
         IN shorter \cup {Append(q, x) : q \in shorter, x \in S}

\* mutant of Yield: the pair carries the relay's own count
YieldCounted(pair, d) == <<Relay(pair[1], d), relayed>>

\* __iter__: yield (tensor_batch, bucket_idx)
Yield(pair, d) == <<Relay(pair[1], d), pair[2]>>

\* the input pairs carry the bucket indexes 0, 1, ..., or all come from the
\* first bucket
RelayInit ==
    /\ \E q \in SeqsUpTo(TensorBatches, MaxRelayLen), one_bucket \in BOOLEAN :
          data_iter = [i \in 1..Len(q) |->
                          <<q[i], IF one_bucket THEN 0 ELSE i - 1>>]
    /\ device \in Devices
    /\ relayed = 0
    /\ relay_out = <<>>
    /\ rpc = "ready"

\* one pass of "for tensor_batch, bucket_idx in self.data_iter"
RelayNext ==
    /\ rpc = "ready"
    /\ relayed < Len(data_iter)
    /\ relay_out' = Append(relay_out, Yield(data_iter[relayed + 1], device))
    /\ relayed' = relayed + 1
    /\ UNCHANGED <<data_iter, device, rpc>>

\* the input is exhausted
RelayEnd ==
    /\ rpc = "ready"
    /\ relayed = Len(data_iter)
    /\ rpc' = "StopIteration"
    /\ UNCHANGED <<data_iter, device, relayed, relay_out>>

RelayIdle ==
    /\ data_iter = <<>>
    /\ device = "cpu"
    /\ relayed = 0
    /\ relay_out = <<>>
    /\ rpc = "idle"

----------------------------------------------------------------------------
(* Claims about the iterator *)

Min(a, b) == IF a < b THEN a ELSE b

\* the bucket flushed last is the partial one left at the end of the stream
IsFinalPartial(k) ==
    /\ k = Len(flushed)
    /\ kpc = "done"
    /\ Len(flushed[k].raw) < flushed[k].target

\* the target the ramp is said to give to the k-th bucket
RECURSIVE RampTarget(_)
RampTarget(k) ==
    IF k = 1
    THEN (IF bucket_size_init > 0 THEN bucket_size_init ELSE bucket_size)
    ELSE LET prev == RampTarget(k - 1)
         IN IF prev < bucket_size
            THEN prev + bucket_size_increment
            ELSE bucket_size

RampScenario == <<4, 8, 12, 16, 16, 16>>

\* C11: with a positive bucket_size_init the first bucket targets it, and
\* after each flush the target grows by the increment while it is below
\* bucket_size, else it becomes bucket_size; with bucket_size_init <= 0 every
\* bucket targets bucket_size; a bucket is flushed when it holds its target
\* (the final partial one when the stream ends); with init 4, size 16 and
\* increment 4 the flushed buckets hold 4, 8, 12, 16, 16, 16 examples.
C11_BucketRamp ==
    /\ \A k \in 1..Len(flushed) :
        /\ flushed[k].target = RampTarget(k)
        /\ \/ Len(flushed[k].raw) = RampTarget(k)
           \/ IsFinalPartial(k)
        /\ bucket_size_init <= 0 => flushed[k].target = bucket_size
    /\ (bucket_size_init = 4 /\ bucket_size = 16 /\ bucket_size_increment = 4)
        => \A k \in 1..Min(Len(flushed), 6) :
              Len(flushed[k].raw) = RampScenario[k]

C11_Witness ==
    /\ bucket_size_init = 4 /\ bucket_size = 16 /\ bucket_size_increment = 4
    /\ Len(flushed) >= 6
    /\ [k \in 1..6 |-> Len(flushed[k].raw)] = RampScenario

\* C12: with 0 < bucket_size_init <= bucket_size and any increment >= 0,
\* every flushed bucket holds at least bucket_size_init examples (the final
\* partial one may hold fewer) and never more than bucket_size.
C12_BucketWithinBounds ==
    (0 < bucket_size_init /\ bucket_size_init <= bucket_size)
        => \A k \in 1..Len(flushed) :
              /\ Len(flushed[k].raw) <= bucket_size
              /\ Len(flushed[k].raw) >= bucket_size_init \/ IsFinalPartial(k)

\* the raw buckets flushed so far, one after the other
RECURSIVE RawRuns(_)
RawRuns(k) == IF k = 0 THEN <<>> ELSE RawRuns(k - 1) \o flushed[k].raw

\* the examples of b the transform step keeps, numericalized, in order
KeptOf(b) ==
    LET kept == SelectSeq(b, LAMBDA x : x \notin rejected)
    IN [i \in 1..Len(kept) |-> Numericalize(kept[i])]

\* C13: outside training, over a finite stream, the raw buckets are
\* consecutive runs of the mixer's stream: while the stream lasts they are,
\* with the bucket being filled, the examples drawn so far, and once it ends
\* they are the whole stream, the last run included; no empty raw bucket is
\* flushed; each numericalized bucket is, in order, exactly the examples of
\* its run that the transform step did not reject.
C13_BucketsPartitionStream ==
    (task # "train" /\ kpc \in {"loop", "done"})
        => /\ kpc = "loop" => RawRuns(Len(flushed)) \o bucket = out
           /\ kpc = "done" =>
                /\ RawRuns(Len(flushed)) = out
                /\ out = SeqExpected(weights)
           /\ \A k \in 1..Len(flushed) :
                /\ flushed[k].raw # <<>>
                /\ flushed[k].num = KeptOf(flushed[k].raw)

C13_Witness ==
    /\ task # "train"
    /\ kpc = "done"
    /\ Len(flushed) >= 2
    /\ IsFinalPartial(Len(flushed))
    /\ \E k \in 1..Len(flushed) :
          Len(flushed[k].num) < Len(flushed[k].raw) /\ flushed[k].num # <<>>

\* the bucket_idx tags of the pairs yielded for the first k buckets
RECURSIVE TagsOf(_)
TagsOf(k) ==
    IF k = 0 THEN <<>>
    ELSE TagsOf(k - 1) \o [i \in 1..flushed[k].nb |-> k - 1]

\* C14: in the output stream of one iteration bucket_idx never decreases:
\* the first bucket carries 0, every minibatch of a bucket carries that
\* bucket's index, and each bucket's index is one more than the previous
\* bucket's.
C14_BucketIdxMonotone ==
    /\ \A k \in 1..Len(flushed) : flushed[k].idx = k - 1
    /\ stream = TagsOf(Len(flushed))
    /\ \A i \in 1..Len(stream) - 1 : stream[i] <= stream[i + 1]

C14_Witness ==
    /\ Len(flushed) >= 3
    /\ flushed[1].nb >= 2
    /\ flushed[2].nb >= 1
    /\ flushed[3].nb >= 1
    /\ stream[Len(stream)] = 2

\* the scenario: corpora A (5 examples) and B (15 examples), weights 1 and 1,
\* buckets of 10 without ramp, training
MixScenario ==
    /\ task = "train"
    /\ DOMAIN iterables = Names
    /\ Len(iterables["A"]) = 5
    /\ Len(iterables["B"]) = 15
    /\ corpora_info = <<<<"A", 1>>, <<"B", 1>>>>
    /\ bucket_size = 10
    /\ bucket_size_init <= 0

\* C17: in the scenario, once exactly 3 buckets have been drawn, corpus A has
\* been restarted at least once and corpus B has not been restarted.
C17_ShortCorpusRestarts ==
    (MixScenario /\ Len(flushed) = 3 /\ bucket = <<>>)
        => /\ Len(out) = 30
           /\ _counts["A"] >= 2
           /\ _counts["B"] = 1
           /\ \E i, j \in 1..Len(out) : i < j /\ out[i] = out[j] /\ out[i][1] = "A"
           /\ \A i, j \in 1..Len(out) : (i < j /\ out[i][1] = "B") => out[i] # out[j]

C17_Witness ==
    /\ MixScenario
    /\ Len(flushed) = 3
    /\ bucket = <<>>
    /\ \A k \in 1..3 : Len(flushed[k].raw) = 10

\* the mixed stream of a finite run has this many examples
RECURSIVE StreamTotal(_)
StreamTotal(ws) ==
    IF ws = <<>> THEN 0
    ELSE ws[1][2] * Len(iterables[ws[1][1]]) + StreamTotal(Tail(ws))

\* C20 (state part): _init_datasets selects the weighted mixer exactly when
\* the task is training and the sequential mixer otherwise; outside training
\* the iterator has drawn no more than the finite stream holds and has
\* yielded no more minibatches than examples; in training over non-empty
\* corpora with positive weights the iteration has neither ended nor failed.
C20_MixerByTask ==
    /\ kpc # "new" =>
        /\ mkind = "WeightedMixer" <=> task = "train"
        /\ mkind = "SequentialMixer" <=> task # "train"
        /\ init_iterators
    /\ (task # "train" /\ kpc # "new") =>
        /\ kpc \in {"ready", "loop", "done"}
        /\ Len(out) <= StreamTotal(weights)
        /\ Len(stream) <= Len(out)
    /\ (task = "train" /\ kpc # "new" /\ AllPositive
            /\ AllNonEmpty) =>
        /\ kpc \in {"ready", "loop"}

TrainForever == task = "train" /\ AllPositive /\ AllNonEmpty

\* C20: the state part always holds; an iteration outside training over
\* finite corpora ends; a training iteration over non-empty corpora with
\* positive weights draws one more example at every step and goes on for as
\* many buckets as the consumer asks for.
C20_FiniteUnlessTraining ==
    /\ []C20_MixerByTask
    /\ (task # "train") ~> (kpc = "done")
    /\ [][(TrainForever /\ kpc # "new") => Len(out') = Len(out) + 1]_vars
    /\ (TrainForever /\ kpc = "ready") ~> (Len(flushed) = MaxBuckets)

C20_Witness ==
    \/ task = "valid" /\ kpc = "done" /\ Len(flushed) >= 2 /\ Len(stream) >= 3
    \/ /\ task = "train"
       /\ Len(flushed) = MaxBuckets
       /\ AllPositive
       /\ AllNonEmpty
       /\ \E n \in DOMAIN _counts : _counts[n] >= 3

\* the pairs of the sequence q are in ascending / descending sort-key order
Ascending(q) ==
    \A i \in 1..Len(q) - 1 : ~KeyLess(SortKey(q[i + 1][1]), SortKey(q[i][1]))
Descending(q) ==
    \A i \in 1..Len(q) - 1 : ~KeyLess(SortKey(q[i][1]), SortKey(q[i + 1][1]))

PairsOf(q) == {q[i] : i \in DOMAIN q}

\* what the batch assembler produces for the numericalized bucket num
AssemblerOutput(num) ==
    BatchIterAll(SortPairs([i \in 1..Len(num) |-> <<num[i], i - 1>>], FALSE))

\* C26: for each bucket every example gets a distinct original-position
\* index 0..n-1 and the bucket is sorted by sort key before batching; in
\* training the minibatches yielded are a permutation of those the batch
\* assembler produced, with the same members, and the examples of each are in
\* descending sort-key order; outside training the minibatches are yielded in
\* assembler order and their concatenation is in ascending sort-key order.
C26_SortAndShuffle ==
    flushed # <<>> =>
        LET num == flushed[Len(flushed)].num
            all == Flatten(p_batch)
            made == AssemblerOutput(num)
        IN /\ \A i \in DOMAIN all :
                /\ all[i][2] \in 0..(Len(num) - 1)
                /\ all[i][1] = num[all[i][2] + 1]
                /\ \A j \in DOMAIN all : all[i][2] = all[j][2] => i = j
           /\ Ascending(Flatten(made))
           /\ task = "train" =>
                /\ \E f \in Permutations(1..Len(made)) :
                      /\ Len(p_batch) = Len(made)
                      /\ \A i \in DOMAIN made :
                            /\ PairsOf(p_batch[i]) = PairsOf(made[f[i]])
                            /\ Len(p_batch[i]) = Len(made[f[i]])
                /\ \A i \in DOMAIN p_batch : Descending(p_batch[i])
           /\ task # "train" =>
                /\ p_batch = made
                /\ Len(all) = Len(num)
                /\ Ascending(all)

C26_Witness ==
    /\ task = "train"
    /\ flushed # <<>>
    /\ Len(p_batch) = 2
    /\ p_batch # AssemblerOutput(flushed[Len(flushed)].num)
    /\ Len(p_batch[1]) = 2
    /\ KeyLess(SortKey(p_batch[1][2][1]), SortKey(p_batch[1][1][1]))
    /\ KeyLess(SortKey(p_batch[1][1][1]), SortKey(p_batch[2][1][1]))

\* C31 as stated: over the whole lifetime of one DynamicDatasetIter, also
\* when it is iterated more than once, no two different buckets carry the
\* same bucket_idx.
C31_UniqueBucketIdx ==
    \A i, j \in 1..Len(flushed) : flushed[i].idx = flushed[j].idx => i = j

\* the ramp starts below bucket_size
StartsBelow == 0 < bucket_size_init /\ bucket_size_init < bucket_size

\* _bucketing is running: the target is in _bucket_size
Bucketing == kpc = "loop"

\* C35 (state part): with a positive increment the target is bucket_size
\* once bucket_size - bucket_size_init + 1 buckets were flushed; with the
\* increment 0 the target is bucket_size_init and so is the target of every
\* flushed bucket.
C35_RampState ==
    (StartsBelow /\ Bucketing) =>
        /\ (/\ bucket_size_increment > 0
            /\ Len(flushed) >= bucket_size - bucket_size_init + 1) =>
                _bucket_size = bucket_size
        /\ bucket_size_increment = 0 =>
            /\ _bucket_size = bucket_size_init
            /\ _bucket_size # bucket_size
            /\ \A k \in 1..Len(flushed) :
                  flushed[k].target = bucket_size_init

\* C35 (step part): a target that is bucket_size stays bucket_size
C35_RampStays ==
    (StartsBelow /\ Bucketing /\ _bucket_size = bucket_size) =>
        _bucket_size' = bucket_size

\* C35: when 0 < bucket_size_init < bucket_size and the increment is
\* positive, the bucket target equals bucket_size after finitely many
\* flushes of a stream that goes on, and stays equal to it for every later
\* bucket; when the increment is 0 the target stays at bucket_size_init
\* forever and never reaches bucket_size.
C35_RampConverges ==
    /\ []C35_RampState
    /\ [][C35_RampStays]_vars
    /\ (StartsBelow /\ bucket_size_increment > 0 /\ task = "train")
          ~> [](Bucketing /\ _bucket_size = bucket_size)
    /\ (StartsBelow /\ bucket_size_increment = 0 /\ task = "train")
          ~> [](Bucketing /\ _bucket_size = bucket_size_init)

C35_Witness ==
    /\ task = "train"
    /\ bucket_size_init = 2
    /\ bucket_size = 5
    /\ bucket_size_increment = 2
    /\ Len(flushed) = MaxBuckets
    /\ [k \in 1..4 |-> flushed[k].target] = <<2, 4, 6, 5>>
    /\ _bucket_size = 5

----------------------------------------------------------------------------
(* Claims about construction and worker partitioning *)

\* build_corpora_iters: a reader takes the lines whose index is its offset
\* modulo its stride
ReadsLine(r, i) == i % r.stride = r.offset

\* the workers each process of the job runs
WorkersOf(o) == procs[o].it.num_workers

\* the line indexes looked at: two rounds of the largest stride
LineIndexes == 0..(2 * MaxStride * MaxWorkers - 1)

\* every worker of every process has run _init_datasets
AllWorkersStarted ==
    /\ stride >= 1
    /\ \A o \in DOMAIN procs :
        /\ procs[o].kind = "OnDeviceDatasetIter"
        /\ \A w \in 0..(WorkersOf(o) - 1) :
              \E r \in readers : r.rank = o /\ r.worker = w

\* C15: for a stride S >= 1, N >= 1 workers, offset O in 0..S-1 and worker w
\* in 0..N-1, _init_datasets reads with stride S*N and offset O*N + w; the
\* offsets lie in 0..S*N-1 and differ for different (O, w); no line index is
\* read by two (process, worker) pairs, and once every pair has started each
\* line index is read by exactly one of them.
C15_WorkersPartitionCorpus ==
    /\ \A r \in readers :
        WorkersOf(r.rank) >= 1 =>
            /\ r.rank \in 0..(stride - 1)
            /\ r.worker \in 0..(WorkersOf(r.rank) - 1)
            /\ r.stride = stride * WorkersOf(r.rank)
            /\ r.offset = r.rank * WorkersOf(r.rank) + r.worker
            /\ r.offset \in 0..(stride * WorkersOf(r.rank) - 1)
    /\ \A r1, r2 \in readers :
        (r1.rank # r2.rank \/ r1.worker # r2.worker) =>
            /\ r1.offset # r2.offset
            /\ \A i \in LineIndexes : ~(ReadsLine(r1, i) /\ ReadsLine(r2, i))
    /\ AllWorkersStarted =>
        \A i \in LineIndexes :
            Cardinality({r \in readers : ReadsLine(r, i)}) = 1

C15_Witness ==
    /\ AllWorkersStarted
    /\ stride = 2
    /\ Cardinality(readers) = 4
    /\ \E r \in readers : r.rank = 1 /\ r.worker = 1 /\ r.offset = 3

\* C18: constructing a DynamicDatasetIter with stride <= 0, or with a
\* skip_empty_level other than silent, warning and error, fails with
\* ValueError, gives no iterator and reads no data; with stride >= 1 and a
\* valid level the construction succeeds.
C18_ConstructionValidates ==
    \A o \in DOMAIN procs :
        (procs[o] # Unbuilt /\ procs[o].via = "new") =>
            IF stride <= 0 \/ skip_empty_level \notin {"silent", "warning", "error"}
            THEN /\ procs[o].kind = "ValueError"
                 /\ procs[o].it = [kind |-> "ValueError"]
                 /\ \A r \in readers : r.rank # o
            ELSE /\ procs[o].kind = "DynamicDatasetIter"
                 /\ procs[o].it.stride = stride
                 /\ procs[o].it.offset = o
                 /\ procs[o].it.skip_empty_level = skip_empty_level
                 /\ \A r \in readers : r.rank # o

C18_Witness ==
    /\ stride = 0
    /\ skip_empty_level = "warning"
    /\ procs[0] # Unbuilt
    /\ procs[0].via = "new"
    /\ procs[0].kind = "ValueError"

\* C19: when get_corpora returns no corpora, build_dynamic_dataset_iter fails
\* for the training task, and for the other tasks returns None without
\* failing, without building an iterator and without reading data.
C19_NoCorpora ==
    \A o \in DOMAIN procs :
        (procs[o] # Unbuilt /\ procs[o].via = "build" /\ corpora = "None") =>
            /\ task = "train" => procs[o].kind = "AssertionError"
            /\ task # "train" => procs[o].kind = "None"
            /\ "it" \notin DOMAIN procs[o]
            /\ \A r \in readers : r.rank # o

C19_Witness ==
    /\ corpora = "None"
    /\ task = "valid"
    /\ \E o \in DOMAIN procs :
          procs[o] # Unbuilt /\ procs[o].via = "build" /\ procs[o].kind = "None"

\* the process with offset o holds an iterator
HasIter(o) ==
    /\ "it" \in DOMAIN procs[o]
    /\ procs[o].it.kind = "DynamicDatasetIter"

\* C27: the padding side the iterator builds tensors with is left exactly
\* when the task is not training and left_pad was configured true; for the
\* training task it is never left, also when left padding was configured.
C27_LeftPadOutsideTraining ==
    \A o \in DOMAIN procs :
        HasIter(o) =>
            /\ procs[o].it.left_pad <=> (task # "train" /\ left_pad)
            /\ task = "train" => ~procs[o].it.left_pad

C27_Witness ==
    /\ task = "train"
    /\ left_pad
    /\ stride = 2
    /\ HasIter(0) /\ procs[0].via = "build" /\ ~procs[0].it.left_pad
    /\ HasIter(1) /\ procs[1].via = "new" /\ ~procs[1].it.left_pad

\* the process with offset o got its iterator on the single-process path
\* of build_dynamic_dataset_iter
SinglePath(o) ==
    /\ procs[o] # Unbuilt
    /\ procs[o].via = "build"
    /\ procs[o].kind = "DynamicDatasetIter"

\* C32 as stated: an iterator returned by the single-process path of
\* build_dynamic_dataset_iter (num_workers == 0, or task INFER with any
\* configured num_workers), initialised with worker id 0, reads with exactly
\* the stride and offset the caller passed.
C32_SinglePathReadsAsPassed ==
    \A o \in DOMAIN procs :
        SinglePath(o) =>
            /\ \E r \in readers : r.rank = o /\ r.worker = 0
            /\ \A r \in readers :
                  r.rank = o => (r.stride = stride /\ r.offset = o)

----------------------------------------------------------------------------
(* Claims about the device relay *)

OnDevice(v, d) ==
    \/ v.is = "tensor" /\ v.dev = d
    \/ v.is = "list" /\ \A i \in DOMAIN v.devs : v.devs[i] = d

\* C16: after the relay has processed a tensor batch, every field except
\* cid, ind_in_bucket, cid_line_number and left_pad is on the target device,
\* a list-valued field with each of its elements, and those four fields are
\* as they were; of a batch with the keys src_ids, cid and tgt_ids, cid is
\* unchanged and src_ids and tgt_ids are on the target device.
C16_RelayMovesTensors ==
    \A k \in 1..Len(relay_out) :
        LET before == data_iter[k][1]
            after == relay_out[k][1]
        IN /\ DOMAIN after = DOMAIN before
           /\ \A key \in DOMAIN after :
                IF key \in {"cid", "ind_in_bucket", "cid_line_number", "left_pad"}
                THEN after[key] = before[key]
                ELSE /\ OnDevice(after[key], device)
                     /\ after[key].is = before[key].is
                     /\ before[key].is = "list" =>
                            Len(after[key].devs) = Len(before[key].devs)
           /\ DOMAIN before = {"src_ids", "cid", "tgt_ids"} =>
                /\ after["cid"] = before["cid"]
                /\ after["src_ids"].dev = device
                /\ after["tgt_ids"].dev = device

C16_Witness ==
    /\ device = "cuda:0"
    /\ Len(relay_out) = 2
    /\ DOMAIN relay_out[1][1] = {"src_ids", "cid", "tgt_ids"}
    /\ relay_out[1][1]["src_ids"].dev = "cuda:0"
    /\ "images" \in DOMAIN relay_out[2][1]
    /\ Len(relay_out[2][1]["images"].devs) = 2
    /\ relay_out[2][1]["left_pad"] = Plain(TRUE)

\* C30: the relay has yielded one pair for each pair it has taken from its
\* input, in the input's order: the k-th pair yielded carries the bucket_idx
\* and the field names of the k-th pair received, and the fields that
\* identify the batch unchanged; it has ended only with every received pair
\* yielded, and then yields nothing more.
C30_RelayOneForOne ==
    /\ [](/\ Len(relay_out) = relayed
          /\ relayed <= Len(data_iter)
          /\ \A k \in 1..Len(relay_out) :
                /\ relay_out[k][2] = data_iter[k][2]
                /\ DOMAIN relay_out[k][1] = DOMAIN data_iter[k][1]
                /\ \A key \in MetadataKeys \cap DOMAIN data_iter[k][1] :
                      relay_out[k][1][key] = data_iter[k][1][key]
          /\ rpc = "StopIteration" => Len(relay_out) = Len(data_iter))
    /\ [][/\ Len(relay_out') <= Len(relay_out) + 1
          /\ IsPrefix(relay_out, relay_out')
          /\ rpc = "StopIteration" => relay_out' = relay_out]_vars

C30_Witness ==
    /\ rpc = "StopIteration"
    /\ Len(relay_out) = 2
    /\ relay_out[1][2] = 0
    /\ relay_out[2][2] = 0
    /\ DOMAIN relay_out[1][1] # DOMAIN relay_out[2][1]

----------------------------------------------------------------------------
(* Worker replicas: the DataLoader gives every worker process its own copy *)
(* of the iterator and runs _init_datasets(worker_id) in it                *)

MaxLines == 4         \* most examples in one corpus file
MaxInitRuns == 2      \* most runs of _init_datasets on one replica
MaxWorkerDraws == 3   \* most items one replica draws in one pass

\* the workers that hold a replica: the process itself without workers
WorkerIds == IF num_workers > 0 THEN 0..(num_workers - 1) ELSE {0}

\* build_corpora_iters(stride, offset): of every corpus the examples on the
\* lines (counted from 0) that the reader r takes
Shard(r) ==
    [n \in DOMAIN files |->
        SelectSeq(Source(n, files[n]), LAMBDA x : ReadsLine(r, x[2] - 1))]

\* the state of the replica that is running
Live ==
    [mkind |-> mkind, iterables |-> iterables, weights |-> weights,
     mixer |-> mixer, pc |-> pc, _iterators |-> _iterators,
     _counts |-> _counts, slot |-> slot, sub |-> sub, item |-> item,
     pending |-> pending, out |-> out, init_iterators |-> init_iterators,
     _bucket_size |-> _bucket_size, bucket |-> bucket,
     bucket_idx |-> bucket_idx, flushed |-> flushed, stream |-> stream,
     p_batch |-> p_batch, kpc |-> kpc, init_runs |-> init_runs]

\* the replica r becomes the running one
Load(r) ==
    /\ mkind' = r.mkind
    /\ iterables' = r.iterables
    /\ weights' = r.weights
    /\ mixer' = r.mixer
    /\ pc' = r.pc
    /\ _iterators' = r._iterators
    /\ _counts' = r._counts
    /\ slot' = r.slot
    /\ sub' = r.sub
    /\ item' = r.item
    /\ pending' = r.pending
    /\ out' = r.out
    /\ init_iterators' = r.init_iterators
    /\ _bucket_size' = r._bucket_size
    /\ bucket' = r.bucket
    /\ bucket_idx' = r.bucket_idx
    /\ flushed' = r.flushed
    /\ stream' = r.stream
    /\ p_batch' = r.p_batch
    /\ kpc' = r.kpc
    /\ init_runs' = r.init_runs

\* the replica of worker w, running or not
Replica(w) == IF w = worker THEN Live ELSE replicas[w]

\* the configurations of the replicated iterator
WorkerCorpora ==
    {[info |-> <<<<"A", 1>>>>, lens |-> [n \in {"A"} |-> MaxLines]],
     [info |-> <<<<"A", 1>>, <<"B", 1>>>>,
      lens |-> [n \in Names |-> IF n = "A" THEN MaxLines ELSE MaxLines - 1]]}

\* the iterator is constructed and num_workers is set; every worker holds a
\* copy of it
WorkersInit ==
    /\ task \in {"train", "valid"}
    /\ \E c \in WorkerCorpora : corpora_info = c.info /\ files = c.lens
    /\ num_workers \in 0..MaxWorkers
    /\ stride \in 1..MaxStride
    /\ offset \in 0..(stride - 1)
    /\ bucket_size = 2
    /\ bucket_size_init = -1
    /\ bucket_size_increment = 0
    /\ rejected = {}
    /\ batch_type = "sents"
    /\ batch_size = 2
    /\ batch_size_multiple = 1
    /\ mkind = NoMixer
    /\ iterables = <<>>
    /\ weights = <<>>
    /\ mixer = NoMixer
    /\ pc = "new"
    /\ _iterators = <<>>
    /\ _counts = <<>>
    /\ slot = 0
    /\ sub = 0
    /\ item = NoItem
    /\ pending = FALSE
    /\ out = <<>>
    /\ data = <<>>
    /\ minibatch = <<>>
    /\ maxlen = 0
    /\ size_so_far = 0
    /\ seen = {}
    /\ batches = <<>>
    /\ warnings = 0
    /\ final_yield = FALSE
    /\ bpc = "idle"
    /\ init_iterators = FALSE
    /\ _bucket_size = 0
    /\ bucket = <<>>
    /\ bucket_idx = 0
    /\ flushed = <<>>
    /\ stream = <<>>
    /\ p_batch = <<>>
    /\ kpc = "new"
    /\ init_runs = 0
    /\ corpora = "corpora"
    /\ has_training = TRUE
    /\ skip_empty_level = "warning"
    /\ left_pad = FALSE
    /\ procs = <<>>
    /\ readers = {}
    /\ worker = 0
    /\ replicas = [w \in WorkerIds |-> Live]

\* the scheduler runs another worker: the state of the running replica
\* stays in its process
Switch(w) ==
    /\ w \in WorkerIds
    /\ w # worker
    /\ replicas' = [replicas EXCEPT ![worker] = Live]
    /\ Load(replicas[w])
    /\ worker' = w
    /\ UNCHANGED <<files, offset>>
    /\ UNCHANGED <<corpora_info, bucket_size, bucket_size_init,
                   bucket_size_increment, rejected>>
    /\ UNCHANGED <<batchVars, buildVars, relayVars, gatherVars, registryVars,
                   handlerVars, toolVars>>

\* _init_datasets(worker) in the running worker, the first time or again
WorkerInitDatasets ==
    /\ kpc \in {"new", "ready", "done"}
    /\ init_runs < MaxInitRuns
    /\ LET r == InitReader([stride |-> stride, offset |-> offset,
                            num_workers |-> num_workers], offset, worker)
       IN /\ InitDatasetsWith(Shard(r))
          /\ readers' = readers \cup {r}
    /\ UNCHANGED <<corpora, has_training, num_workers, stride,
                   skip_empty_level, left_pad, procs>>
    /\ UNCHANGED <<workerVars, gatherVars, registryVars, handlerVars, toolVars>>

\* iteration asked of a replica on which _init_datasets has not run:
\* "for ex in self.mixer" finds no attribute mixer
IterEarly ==
    /\ kpc = "new"
    /\ kpc' = "AttributeError"
    /\ UNCHANGED <<corpora_info, bucket_size, bucket_size_init,
                   bucket_size_increment, rejected, init_iterators,
                   _bucket_size, bucket, bucket_idx, flushed, stream, p_batch,
                   init_runs>>
    /\ UNCHANGED <<mixVars, batchVars, buildVars, relayVars, restVars>>

\* one more item drawn by the running replica, in the pass that follows
\* its first _init_datasets
WorkerDraw == init_runs = 1 /\ Len(out) < MaxWorkerDraws /\ IterDraw

WorkerIdle ==
    /\ files = <<>>
    /\ offset = 0
    /\ replicas = <<>>
    /\ worker = 0

----------------------------------------------------------------------------
(* all_gather_list (eole/utils/distributed.py) *)

MaxWorld == 2         \* largest world size
MaxBufSize == 5       \* largest max_size
MaxEncSize == 4       \* longest pickled payload

HeaderLen == 2        \* the size header takes two bytes
HeaderBase == 255     \* the base of the two header digits

NoBuffer == <<<<"None">>>>
Stale == <<"stale">>  \* a byte left by an earlier call or never written

GatherRanks == 0..(world_size - 1)

\* pickle.dumps(data) in rank r: n bytes that only this call produces
Enc(r, n) == [i \in 1..n |-> <<"enc", r, i>>]

\* mutant of TooLarge: the header is not counted
TooLargeForPayload(n, max) == n > max

\* the size check: enc_size + 2 > max_size
TooLarge(n, max) == n + HeaderLen > max

\* a number stored in a ByteTensor
Byte(x) == <<"byte", x % 256>>

\* "assert max_size < 255 * 256"
SizeLimit == HeaderBase * 256

\* mutant of HeaderOf: the digits are taken in base 256
HeaderOfBytes(n) == <<Byte(n \div 256), Byte(n % 256)>>

\* in_buffer[0] = enc_size // 255 and in_buffer[1] = enc_size % 255
HeaderOf(n) == <<Byte(n \div HeaderBase), Byte(n % HeaderBase)>>

\* (255 * out_buffer[0].item()) + out_buffer[1].item()
DecodeSize(buf) == HeaderBase * buf[1][2] + buf[2][2]

\* in_buffer[0], in_buffer[1] and in_buffer[2 : enc_size + 2] are written
Filled(buf, r, n) ==
    [i \in 1..Len(buf) |->
        IF i <= HeaderLen THEN HeaderOf(n)[i]
        ELSE IF i <= n + HeaderLen THEN Enc(r, n)[i - HeaderLen]
        ELSE buf[i]]

\* the buffers the call works with. "max_size != _in_buffer.size()"
\* compares a number with a torch.Size, which are never equal, so every call
\* allocates new buffers (of unwritten memory), whatever an earlier call left
InBuffer(r) == [i \in 1..max_size |-> Stale]

OutBuffers(r) == [k \in GatherRanks |-> [i \in 1..max_size |-> Stale]]

\* every process is about to call all_gather_list(data, max_size); an
\* earlier call may have left buffers of this or of another size
GatherInit ==
    /\ world_size \in 1..MaxWorld
    /\ max_size \in 0..MaxBufSize
    /\ enc_size \in [GatherRanks -> 0..MaxEncSize]
    /\ \E prev \in {-1, max_size, max_size + 1} :
          /\ in_buffer = [r \in GatherRanks |->
                            IF prev < 0 THEN NoBuffer
                            ELSE [i \in 1..prev |-> Stale]]
          /\ out_buffers = [r \in GatherRanks |->
                              IF prev < 0 THEN NoBuffer
                              ELSE [k \in GatherRanks |->
                                       [i \in 1..prev |-> Stale]]]
    /\ results = [r \in GatherRanks |-> <<>>]
    /\ collectives = 0
    /\ gpc = [r \in GatherRanks |-> "start"]

\* all_gather_list in rank r, up to the collective call
GatherCall(r) ==
    /\ gpc[r] = "start"
    /\ out_buffers' = [out_buffers EXCEPT ![r] = OutBuffers(r)]
    /\ IF TooLarge(enc_size[r], max_size)
       THEN /\ gpc' = [gpc EXCEPT ![r] = "ValueError"]
            /\ in_buffer' = [in_buffer EXCEPT ![r] = InBuffer(r)]
       ELSE IF ~(max_size < SizeLimit)
       THEN /\ gpc' = [gpc EXCEPT ![r] = "AssertionError"]
            /\ in_buffer' = [in_buffer EXCEPT ![r] = InBuffer(r)]
       ELSE IF enc_size[r] + HeaderLen > max_size
       THEN \* the slice of the buffer is shorter than the payload
            /\ gpc' = [gpc EXCEPT ![r] = "RuntimeError"]
            /\ in_buffer' = [in_buffer EXCEPT ![r] = InBuffer(r)]
       ELSE /\ gpc' = [gpc EXCEPT ![r] = "all_gather"]
            /\ in_buffer' = [in_buffer EXCEPT
                                ![r] = Filled(InBuffer(r), r, enc_size[r])]
    /\ UNCHANGED <<world_size, max_size, enc_size, results, collectives>>

\* torch.distributed.all_gather: once every rank has called it, every
\* rank's out_buffers hold the in_buffer of every rank
AllGather ==
    /\ \A r \in GatherRanks : gpc[r] = "all_gather"
    /\ out_buffers' = [r \in GatherRanks |-> [k \in GatherRanks |-> in_buffer[k]]]
    /\ collectives' = collectives + 1
    /\ gpc' = [r \in GatherRanks |-> "decode"]
    /\ UNCHANGED <<world_size, max_size, enc_size, in_buffer, results>>

\* out_buffer[2 : size + 2] with size read from the two header bytes
Payload(buf) ==
    LET size == DecodeSize(buf)
    IN SubSeq(buf, HeaderLen + 1, Min(size + HeaderLen, Len(buf)))

\* the loop over range(world_size) in rank r, and the return
GatherDecode(r) ==
    /\ gpc[r] = "decode"
    /\ results' = [results EXCEPT
                      ![r] = [k \in 1..world_size |-> Payload(out_buffers[r][k - 1])]]
    /\ gpc' = [gpc EXCEPT ![r] = "returned"]
    /\ UNCHANGED <<world_size, max_size, enc_size, in_buffer, out_buffers,
                   collectives>>

MaxPayload == 65278   \* longest pickled payload of the long calls

\* one process is about to call all_gather_list with a long payload; of its
\* buffers the model keeps the two header bytes only
HeaderInit ==
    /\ world_size = 1
    /\ \E e \in 0..MaxPayload :
          /\ enc_size = [r \in {0} |-> e]
          /\ max_size \in {e + HeaderLen - 1, e + HeaderLen, SizeLimit - 1}
    /\ in_buffer = [r \in {0} |-> NoBuffer]
    /\ out_buffers = [r \in {0} |-> NoBuffer]
    /\ results = [r \in {0} |-> <<>>]
    /\ collectives = 0
    /\ gpc = [r \in {0} |-> "start"]

\* all_gather_list up to the collective call, the header bytes only
HeaderCall ==
    /\ gpc[0] = "start"
    /\ IF TooLarge(enc_size[0], max_size)
       THEN /\ gpc' = [gpc EXCEPT ![0] = "ValueError"]
            /\ UNCHANGED in_buffer
       ELSE IF ~(max_size < SizeLimit)
       THEN /\ gpc' = [gpc EXCEPT ![0] = "AssertionError"]
            /\ UNCHANGED in_buffer
       ELSE /\ gpc' = [gpc EXCEPT ![0] = "all_gather"]
            /\ in_buffer' = [in_buffer EXCEPT ![0] = HeaderOf(enc_size[0])]
    /\ UNCHANGED <<world_size, max_size, enc_size, out_buffers, results,
                   collectives>>

\* the receiver reads the size from the header of the gathered buffer
HeaderDecode ==
    /\ gpc[0] = "decode"
    /\ results' = [results EXCEPT ![0] = <<DecodeSize(out_buffers[0][0])>>]
    /\ gpc' = [gpc EXCEPT ![0] = "returned"]
    /\ UNCHANGED <<world_size, max_size, enc_size, in_buffer, out_buffers,
                   collectives>>

GatherIdle ==
    /\ world_size = 0
    /\ max_size = 0
    /\ enc_size = <<>>
    /\ in_buffer = <<>>
    /\ out_buffers = <<>>
    /\ results = <<>>
    /\ collectives = 0
    /\ gpc = <<>>

----------------------------------------------------------------------------
(* Transform registry (eole/transforms/__init__.py) *)

MaxRegistrations == 3   \* most register_transform calls
MaxRequested == 2       \* most names asked of get_transforms_cls

TransformNames == {"filtertoolong", "prefix", "unknown"}

\* classes: Transform, a class that extends it, one that does not
Classes == {"Transform", "FilterTooLong", "Other"}

\* issubclass(cls, Transform)
ExtendsTransform(cls) == cls \in {"Transform", "FilterTooLong"}

\* mutant of Registered: a registered name is given its new class
RegisteredOverwriting(reg, name, cls) ==
    IF ~ExtendsTransform(cls) THEN [raised |-> "ValueError", reg |-> reg]
    ELSE [raised |-> "nothing",
          reg |-> [n \in DOMAIN reg \cup {name} |->
                      IF n = name THEN cls ELSE reg[n]]]

\* register_transform_cls: the registry after the call, or the error raised
Registered(reg, name, cls) ==
    IF name \in DOMAIN reg THEN [raised |-> "ValueError", reg |-> reg]
    ELSE IF ~ExtendsTransform(cls) THEN [raised |-> "ValueError", reg |-> reg]
    ELSE [raised |-> "nothing",
          reg |-> [n \in DOMAIN reg \cup {name} |->
                      IF n = name THEN cls ELSE reg[n]]]

\* the module is imported and no transform is registered
RegistryInit ==
    /\ AVAILABLE_TRANSFORMS = <<>>
    /\ cls_name = <<>>
    /\ attempts = <<>>
    /\ got = [req |-> <<>>, res |-> [kind |-> "none"]]

\* @register_transform(name) applied to cls
Register(name, cls) ==
    /\ Len(attempts) < MaxRegistrations
    /\ LET made == Registered(AVAILABLE_TRANSFORMS, name, cls)
       IN IF made.raised = "ValueError"
          THEN /\ attempts' = Append(attempts, [name |-> name, cls |-> cls,
                                                res |-> "ValueError"])
               /\ UNCHANGED <<AVAILABLE_TRANSFORMS, cls_name>>
          ELSE /\ attempts' = Append(attempts, [name |-> name, cls |-> cls,
                                                res |-> cls])
               /\ AVAILABLE_TRANSFORMS' = made.reg
               /\ cls_name' = [c \in DOMAIN cls_name \cup {cls} |->
                                  IF c = cls THEN name ELSE cls_name[c]]
    /\ UNCHANGED got

\* the names of the request that come before its first unregistered one
RECURSIVE Found(_)
Found(names) ==
    IF names = <<>> THEN <<>>
    ELSE IF names[1] \notin DOMAIN AVAILABLE_TRANSFORMS THEN <<>>
    ELSE <<names[1]>> \o Found(Tail(names))

\* get_transforms_cls(names)
GetTransformsCls(names) ==
    /\ got' = [req |-> names,
               res |-> IF Len(Found(names)) < Len(names)
                       THEN [kind |-> "ValueError",
                             name |-> names[Len(Found(names)) + 1]]
                       ELSE [kind |-> "dict",
                             cls |-> [n \in {names[i] : i \in DOMAIN names} |->
                                         AVAILABLE_TRANSFORMS[n]]]]
    /\ UNCHANGED <<AVAILABLE_TRANSFORMS, cls_name, attempts>>

RegistryIdle ==
    /\ AVAILABLE_TRANSFORMS = <<>>
    /\ cls_name = <<>>
    /\ attempts = <<>>
    /\ got = [req |-> <<>>, res |-> [kind |-> "none"]]

----------------------------------------------------------------------------
(* TrainingModelSaver (eole/models/model_saver.py), in the process that    *)
(* writes: rank 0, or the only process                                     *)

MaxKeep == 2          \* largest keep_checkpoint
MaxStep == 3          \* largest training step that is saved
MaxSaves == 4         \* most save(step) calls on one saver

NoStep == <<>>        \* None

\* update_step_dir: the step directory is made unless it exists
UpdateStepDir(d, step) == d \cup {step}

\* cleanup, with sd the step directory just written: when the queue is full
\* its oldest entry is popped and its directory removed (a missing one is
\* ignored); then the new directory is appended
Cleanup(keep, q, d, sd) ==
    IF keep > 0
    THEN IF Len(q) = keep
         THEN [queue |-> Append(Tail(q), sd), disk |-> d \ {Head(q)}]
         ELSE [queue |-> Append(q, sd), disk |-> d]
    ELSE [queue |-> q, disk |-> d]

\* TrainingModelSaver(model_path, ..., keep_checkpoint) on a new model_path
SaverInit ==
    /\ keep_checkpoint \in {-1, 0} \cup (1..MaxKeep)
    /\ last_saved_step = NoStep
    /\ step_dir = NoStep
    /\ checkpoint_queue = <<>>
    /\ disk = {}
    /\ saves = <<>>

\* save(step): the early return, or _save(step) (update_step_dir, the files,
\* cleanup) and the new last_saved_step
Save(step) ==
    /\ Len(saves) < MaxSaves
    /\ IF keep_checkpoint = 0 \/ <<step>> = last_saved_step
       THEN /\ saves' = Append(saves, [step |-> step, saved |-> FALSE])
            /\ UNCHANGED <<last_saved_step, step_dir, checkpoint_queue, disk>>
       ELSE LET c == Cleanup(keep_checkpoint, checkpoint_queue,
                             UpdateStepDir(disk, step), step)
            IN /\ step_dir' = <<step>>
               /\ checkpoint_queue' = c.queue
               /\ disk' = c.disk
               /\ last_saved_step' = <<step>>
               /\ saves' = Append(saves, [step |-> step, saved |-> TRUE])
    /\ UNCHANGED keep_checkpoint

SaverIdle ==
    /\ keep_checkpoint = -1
    /\ last_saved_step = NoStep
    /\ step_dir = NoStep
    /\ checkpoint_queue = <<>>
    /\ disk = {}
    /\ saves = <<>>

----------------------------------------------------------------------------
(* Optimizer (eole/utils/optimizers.py): the step counters *)

MaxCalls == 4         \* most calls on one optimizer
MaxLoadedStep == 3    \* largest counter in a state dict made elsewhere

StateKeys == {"training_step", "decay_step", "optimizer"}

\* state_dict()
StateDict(ts, ds, inner) ==
    [k \in StateKeys |->
        CASE k = "training_step" -> ts
          [] k = "decay_step" -> ds
          [] OTHER -> inner]

\* mutant of Loaded: a state without decay_step resets the decay step
LoadedResettingDecay(o, sd) ==
    [training_step |-> sd["training_step"],
     decay_step |-> IF "decay_step" \in DOMAIN sd THEN sd["decay_step"] ELSE 1,
     optimizer |-> IF "optimizer" \in DOMAIN sd THEN sd["optimizer"]
                   ELSE o.optimizer]

\* load_state_dict(sd) on the optimizer o: the state can be partial
Loaded(o, sd) ==
    [training_step |-> sd["training_step"],
     decay_step |-> IF "decay_step" \in DOMAIN sd THEN sd["decay_step"]
                    ELSE o.decay_step,
     optimizer |-> IF "optimizer" \in DOMAIN sd THEN sd["optimizer"]
                   ELSE o.optimizer]

\* the state dicts that may be loaded: the ones state_dict() returned, whole
\* or with decay_step or optimizer missing, and whole ones made elsewhere
Loadable ==
    {[k \in d |-> sd[k]] :
        sd \in snapshots,
        d \in {StateKeys, {"training_step", "optimizer"}, {"training_step"}}}
    \cup {StateDict(ts, ds, 0) : ts \in 1..MaxLoadedStep, ds \in {1, MaxLoadedStep}}

\* Optimizer(optimizer, learning_rate, ...)
OptimInit ==
    /\ _training_step = 1
    /\ _decay_step = 1
    /\ _optimizer = 0
    /\ snapshots = {}
    /\ calls = <<>>

\* step(): the wrapped optimizer steps (the GradScaler skips its step when
\* the gradients hold infs or NaNs), then both counters advance
OptimStep ==
    /\ Len(calls) < MaxCalls
    /\ _optimizer' \in {_optimizer, _optimizer + 1}
    /\ _decay_step' = _decay_step + 1
    /\ _training_step' = _training_step + 1
    /\ calls' = Append(calls, [op |-> "step"])
    /\ UNCHANGED snapshots

\* state_dict(): the caller keeps the dict
OptimStateDict ==
    /\ Len(calls) < MaxCalls
    /\ snapshots' = snapshots \cup {StateDict(_training_step, _decay_step,
                                                _optimizer)}
    /\ calls' = Append(calls, [op |-> "state_dict"])
    /\ UNCHANGED <<_training_step, _decay_step, _optimizer>>

\* load_state_dict(sd)
OptimLoad(sd) ==
    /\ Len(calls) < MaxCalls
    /\ LET o == Loaded([training_step |-> _training_step,
                        decay_step |-> _decay_step,
                        optimizer |-> _optimizer], sd)
       IN /\ _training_step' = o.training_step
          /\ _decay_step' = o.decay_step
          /\ _optimizer' = o.optimizer
    /\ calls' = Append(calls, [op |-> "load_state_dict", sd |-> sd])
    /\ UNCHANGED snapshots

OptimIdle ==
    /\ _training_step = 0
    /\ _decay_step = 0
    /\ _optimizer = 0
    /\ snapshots = {}
    /\ calls = <<>>

ToolIdle == SaverIdle /\ OptimIdle

----------------------------------------------------------------------------
(* ErrorHandler (eole/utils/distributed.py) *)

MaxChildren == 2      \* most child processes

Children == 1..MaxChildren

\* what a failing child puts on the queue: its rank and its traceback
Trace(c) == <<"traceback", c>>
Failure(c) == <<c, Trace(c)>>

\* mutant of PutBack: the listener keeps the item it took
PutBackNothing(q, it) == q

\* error_listener: self.error_queue.put((rank, original_trace))
PutBack(q, it) == Append(q, it)

\* signal_handler: the message of the exception
Message(original_trace) == <<"-- Tracebacks above this line can probably be ignored --",
                             original_trace>>

SeqToSet(q) == {q[i] : i \in DOMAIN q}

\* ErrorHandler(error_queue) has been constructed in the parent, before any
\* child exists: the listener thread waits on the empty queue and the
\* SIGUSR1 handler is installed
HandlerInit ==
    /\ error_queue = <<>>
    /\ children_pids = <<>>
    /\ child = [c \in Children |-> "unspawned"]
    /\ interrupted = {}
    /\ lpc = "get"
    /\ held = <<>>
    /\ sigusr1 = FALSE
    /\ hpc = "main"
    /\ raised = <<>>

\* the parent starts the child c
Spawn(c) ==
    /\ hpc = "main"
    /\ child[c] = "unspawned"
    /\ child' = [child EXCEPT ![c] = "running"]
    /\ UNCHANGED <<error_queue, children_pids, interrupted, lpc, held, sigusr1,
                   hpc, raised>>

\* add_child(pid) for the started child c
AddChild(c) ==
    /\ hpc = "main"
    /\ child[c] # "unspawned"
    /\ c \notin SeqToSet(children_pids)
    /\ children_pids' = Append(children_pids, c)
    /\ UNCHANGED <<error_queue, child, interrupted, lpc, held, sigusr1, hpc,
                   raised>>

\* the child c fails and puts (rank, traceback) on the queue
ChildFails(c) ==
    /\ child[c] = "running"
    /\ child' = [child EXCEPT ![c] = "failed"]
    /\ error_queue' = Append(error_queue, Failure(c))
    /\ UNCHANGED <<children_pids, interrupted, lpc, held, sigusr1, hpc, raised>>

\* error_listener: (rank, original_trace) = self.error_queue.get()
ListenerGet ==
    /\ lpc = "get"
    /\ error_queue # <<>>
    /\ held' = Head(error_queue)
    /\ error_queue' = Tail(error_queue)
    /\ lpc' = "put"
    /\ UNCHANGED <<children_pids, child, interrupted, sigusr1, hpc, raised>>

\* error_listener: self.error_queue.put((rank, original_trace))
ListenerPut ==
    /\ lpc = "put"
    /\ error_queue' = PutBack(error_queue, held)
    /\ lpc' = "kill"
    /\ UNCHANGED <<children_pids, child, interrupted, held, sigusr1, hpc, raised>>

\* error_listener: os.kill(os.getpid(), signal.SIGUSR1); the thread ends
ListenerKill ==
    /\ lpc = "kill"
    /\ sigusr1' = TRUE
    /\ lpc' = "done"
    /\ UNCHANGED <<error_queue, children_pids, child, interrupted, held, hpc,
                   raised>>

\* signal_handler in the main thread: os.kill(pid, SIGINT) for every
\* registered pid, up to the blocking get
HandlerKills ==
    /\ sigusr1
    /\ hpc = "main"
    /\ sigusr1' = FALSE
    /\ interrupted' = interrupted \cup SeqToSet(children_pids)
    /\ child' = [c \in Children |->
                    IF c \in SeqToSet(children_pids) /\ child[c] = "running"
                    THEN "interrupted" ELSE child[c]]
    /\ hpc' = "get"
    /\ UNCHANGED <<error_queue, children_pids, lpc, held, raised>>

\* signal_handler: self.error_queue.get() and raise Exception(msg)
HandlerRaises ==
    /\ hpc = "get"
    /\ error_queue # <<>>
    /\ raised' = Message(Head(error_queue)[2])
    /\ error_queue' = Tail(error_queue)
    /\ hpc' = "raised"
    /\ UNCHANGED <<children_pids, child, interrupted, lpc, held, sigusr1>>

HandlerIdle ==
    /\ error_queue = <<>>
    /\ children_pids = <<>>
    /\ child = <<>>
    /\ interrupted = {}
    /\ lpc = "idle"
    /\ held = <<>>
    /\ sigusr1 = FALSE
    /\ hpc = "idle"
    /\ raised = <<>>

RestIdle == WorkerIdle /\ GatherIdle /\ RegistryIdle /\ HandlerIdle /\ ToolIdle

----------------------------------------------------------------------------
(* Claims about the worker replicas *)

\* a mixer that has just been made: no item drawn, no source restarted
FreshMixer ==
    /\ pc = "ready"
    /\ out = <<>>
    /\ slot = 0
    /\ sub = 0
    /\ item = NoItem
    /\ ~pending
    /\ mixer = "WeightedMixer" =>
          \A n \in DOMAIN iterables : _iterators[n] = 0 /\ _counts[n] = 1

\* _init_datasets runs on a replica on which it has run before
InitAgain == worker' = worker /\ init_runs >= 1 /\ init_runs' = init_runs + 1

\* C28: an iterator has no mixer before _init_datasets has run on it, and an
\* iteration asked of it then yields no batch; a further run of
\* _init_datasets with the same worker id leaves the configured stride and
\* offset alone, asks for the same effective (stride, offset) as the run
\* before, makes a mixer of the same class over the same shard, and that
\* mixer starts from fresh source iterators.
C28_InitIdempotent ==
    /\ [](\A w \in WorkerIds :
            Replica(w).init_runs = 0 =>
                /\ Replica(w).mixer = NoMixer
                /\ Replica(w).flushed = <<>>
                /\ Replica(w).stream = <<>>)
    /\ [][InitAgain =>
            /\ stride' = stride
            /\ offset' = offset
            /\ num_workers' = num_workers
            /\ readers' = readers
            /\ mixer' = mixer
            /\ iterables' = iterables
            /\ weights' = weights
            /\ FreshMixer']_vars

C28_Witness ==
    /\ num_workers = 2
    /\ worker = 1
    /\ init_runs = 2
    /\ mixer = "SequentialMixer"
    /\ kpc = "ready"
    /\ flushed # <<>>
    /\ replicas[0].kpc = "AttributeError"
    /\ replicas[0].flushed = <<>>

\* the reader that _init_datasets(w) asks build_corpora_iters for
ReaderOf(w) ==
    InitReader([stride |-> stride, offset |-> offset,
                num_workers |-> num_workers], offset, w)

\* the source of the k-th slot (k from 1) of the weight-repeated list ws
SlotNameOf(ws, k) == NameAt(ws, (k - 1) % SumWeights(ws))

\* what a worker that runs alone draws first from the shard sh: its first n
\* items, by the mixer of the task
RECURSIVE SeqOver(_, _)
SeqOver(sh, ws) ==
    IF ws = <<>> THEN <<>>
    ELSE RepeatSeq(sh[ws[1][1]], ws[1][2]) \o SeqOver(sh, Tail(ws))

SoloStream(sh, ws, n) ==
    IF task = "train"
    THEN [k \in 1..n |->
            LET nm == SlotNameOf(ws, k)
                earlier == Cardinality({i \in 1..(k - 1) :
                                           SlotNameOf(ws, i) = nm})
            IN sh[nm][(earlier % Len(sh[nm])) + 1]]
    ELSE SubSeq(SeqOver(sh, ws), 1, n)

\* the raw buckets the replica r has flushed, one after the other
RECURSIVE RunsOf(_, _)
RunsOf(r, k) == IF k = 0 THEN <<>> ELSE RunsOf(r, k - 1) \o r.flushed[k].raw

\* the bucket_idx tags of the pairs r has yielded for its first k buckets
RECURSIVE TagsOfReplica(_, _)
TagsOfReplica(r, k) ==
    IF k = 0 THEN <<>>
    ELSE TagsOfReplica(r, k - 1) \o [i \in 1..r.flushed[k].nb |-> k - 1]

\* the buckets of r that were flushed full
FullBuckets(r) ==
    Cardinality({k \in 1..Len(r.flushed) :
                    Len(r.flushed[k].raw) = r.flushed[k].target})

\* the replica r of worker w is where a run of w alone would be after as
\* many draws
AsAlone(r, w) ==
    LET sh == Shard(ReaderOf(w))
        ws == DatasetsWeights(corpora_info)
    IN /\ r.iterables = sh
       /\ r.weights = ws
       /\ (task # "train" \/ \A n \in DOMAIN sh : Len(sh[n]) > 0) =>
             /\ Len(r.out) <= Len(SeqOver(sh, ws)) \/ task = "train"
             /\ r.out = SoloStream(sh, ws, Len(r.out))
             /\ r.kpc = "done" => r.out = SeqOver(sh, ws)
       /\ r.kpc = "loop" => RunsOf(r, Len(r.flushed)) \o r.bucket = r.out
       /\ r.kpc = "done" => RunsOf(r, Len(r.flushed)) = r.out
       /\ \A k \in 1..Len(r.flushed) : r.flushed[k].idx = k - 1
       /\ r.stream = TagsOfReplica(r, Len(r.flushed))
       /\ r.bucket_idx = FullBuckets(r)

\* a step changes the replica of the running worker or none
LocalStep ==
    \A w \in WorkerIds :
        Replica(w)' # Replica(w) => (w = worker /\ worker' = worker)

\* C29: whatever the interleaving of the workers' steps, every replica in
\* its first pass holds its own shard and has produced what a run of that
\* worker alone produces with as many draws: the same stream, cut into the
\* same raw buckets, tagged 0, 1, 2, ... from its own bucket_idx; and a step
\* of one worker changes nothing in the replica of another.
C29_WorkersIndependent ==
    /\ [](\A w \in WorkerIds :
            Replica(w).init_runs = 1 => AsAlone(Replica(w), w))
    /\ [][LocalStep]_vars

C29_Witness ==
    /\ num_workers = 2
    /\ task = "train"
    /\ worker = 0
    /\ init_runs = 1
    /\ replicas[1].init_runs = 1
    /\ bucket_idx = 1
    /\ replicas[1].bucket_idx = 1
    /\ Len(out) = MaxWorkerDraws
    /\ Len(replicas[1].out) = MaxWorkerDraws
    /\ out # replicas[1].out

----------------------------------------------------------------------------
(* Claims about all_gather_list *)

\* C22: a call whose pickled payload and two header bytes do not fit in
\* max_size ends with ValueError, and only such a call does; the failed call
\* has written no byte of the payload or header into its transfer buffer, no
\* collective has run, it returns nothing, and it stays failed: the call is
\* not made again.
C22_OversizeFailsEarly ==
    /\ [](\A r \in GatherRanks :
            /\ gpc[r] # "start" =>
                  (gpc[r] = "ValueError" <=> enc_size[r] + 2 > max_size)
            /\ gpc[r] = "ValueError" =>
                  /\ \A i \in 1..Len(in_buffer[r]) : in_buffer[r][i] = Stale
                  /\ collectives = 0
                  /\ results[r] = <<>>)
    /\ [][\A r \in GatherRanks :
            gpc[r] = "ValueError" =>
                /\ gpc'[r] = "ValueError"
                /\ in_buffer'[r] = in_buffer[r]
                /\ collectives' = collectives]_vars

C22_Witness ==
    /\ world_size = 2
    /\ gpc[0] = "ValueError"
    /\ gpc[1] = "all_gather"
    /\ enc_size[0] = max_size - 1
    /\ enc_size[0] >= 2
    /\ in_buffer[1][3] = <<"enc", 1, 1>>

\* the call in rank 0 was accepted: the header is written
Accepted == gpc[0] \in {"all_gather", "decode", "returned"}

\* C39: for every payload size e accepted by all_gather_list
\* (e + 2 <= max_size < 255 * 256), the header values e // 255 and e % 255
\* each fit in one unsigned byte, and the receiver's decoding 255 * b0 + b1
\* returns exactly e.
C39_HeaderRoundTrip ==
    /\ gpc[0] # "start" =>
          (Accepted <=> /\ enc_size[0] + 2 <= max_size
                        /\ max_size < 255 * 256)
    /\ Accepted =>
          /\ enc_size[0] \div 255 \in 0..255
          /\ enc_size[0] % 255 \in 0..255
          /\ in_buffer[0] = <<<<"byte", enc_size[0] \div 255>>,
                              <<"byte", enc_size[0] % 255>>>>
    /\ gpc[0] = "returned" => results[0] = <<enc_size[0]>>

C39_Witness ==
    /\ gpc[0] = "returned"
    /\ enc_size[0] = 255 * 256 - 3
    /\ in_buffer[0] = <<<<"byte", 255>>, <<"byte", 252>>>>
    /\ results[0] = <<65277>>

----------------------------------------------------------------------------
(* Claims about the transform registry *)

\* the class of the first successful registration under name, if any
RECURSIVE FirstRegistered(_, _)
FirstRegistered(log, name) ==
    IF log = <<>> THEN "none"
    ELSE IF log[1].name = name /\ log[1].res # "ValueError" THEN log[1].cls
    ELSE FirstRegistered(Tail(log), name)

\* a step that is a registration, and the registration made
Registers == Len(attempts') = Len(attempts) + 1
Attempt == attempts'[Len(attempts')]

\* C23: a registration under a name already registered, or of a class that
\* does not extend Transform, fails with ValueError and leaves the registry
\* as it was, and any other registration succeeds; the registry maps exactly
\* the names registered with success, each to the class of its first
\* successful registration; get_transforms_cls fails with ValueError when a
\* requested name is not registered, and returns the registered classes of
\* the requested names otherwise.
C23_RegistryFirstWins ==
    /\ [][Registers =>
            IF \/ Attempt.name \in DOMAIN AVAILABLE_TRANSFORMS
               \/ Attempt.cls \notin {"Transform", "FilterTooLong"}
            THEN /\ Attempt.res = "ValueError"
                 /\ AVAILABLE_TRANSFORMS' = AVAILABLE_TRANSFORMS
                 /\ cls_name' = cls_name
            ELSE /\ Attempt.res = Attempt.cls
                 /\ DOMAIN AVAILABLE_TRANSFORMS' =
                        DOMAIN AVAILABLE_TRANSFORMS \cup {Attempt.name}]_vars
    /\ [](\A name \in TransformNames :
            IF name \in DOMAIN AVAILABLE_TRANSFORMS
            THEN AVAILABLE_TRANSFORMS[name] = FirstRegistered(attempts, name)
            ELSE FirstRegistered(attempts, name) = "none")
    /\ [][got' # got =>
            LET asked == {got'.req[i] : i \in DOMAIN got'.req}
            IN IF asked \subseteq DOMAIN AVAILABLE_TRANSFORMS
               THEN /\ got'.res.kind = "dict"
                    /\ DOMAIN got'.res.cls = asked
                    /\ \A n \in asked :
                          got'.res.cls[n] = AVAILABLE_TRANSFORMS[n]
               ELSE /\ got'.res.kind = "ValueError"
                    /\ got'.res.name \in asked \ DOMAIN AVAILABLE_TRANSFORMS]_vars

C23_Witness ==
    /\ Len(attempts) = 3
    /\ attempts[1].res = "Transform"
    /\ attempts[2].name = attempts[1].name
    /\ attempts[2].cls = "FilterTooLong"
    /\ attempts[2].res = "ValueError"
    /\ attempts[3].cls = "Other"
    /\ attempts[3].res = "ValueError"
    /\ DOMAIN AVAILABLE_TRANSFORMS = {attempts[1].name}
    /\ got.res.kind = "ValueError"
    /\ Len(got.req) = 2
    /\ got.req[1] = attempts[1].name

----------------------------------------------------------------------------
(* Claims about the model saver *)

\* the steps of the save calls that saved, in call order
Saved == SelectSeq(saves, LAMBDA c : c.saved)

\* the steps of the k most recent saves
MostRecent(k) ==
    {Saved[i].step : i \in (Max(Len(Saved) - k, 0) + 1)..Len(Saved)}

C37_Retention ==
    (keep_checkpoint > 0 /\ Saved # <<>>) =>
        /\ Cardinality(disk) <= keep_checkpoint
        /\ Saved[Len(Saved)].step \in disk
        /\ disk = MostRecent(keep_checkpoint)

C37_NoOp ==
    \A step \in 1..MaxStep :
        (/\ Len(saves') = Len(saves) + 1
         /\ saves'[Len(saves')].step = step
         /\ (keep_checkpoint = 0 \/ last_saved_step = <<step>>)) =>
            UNCHANGED <<last_saved_step, step_dir, checkpoint_queue, disk>>

\* C37 as stated: with keep_checkpoint = K > 0, after any sequence of
\* save(step) calls at most K step directories written by the saver remain,
\* the directory of the most recently saved step exists and the retained
\* directories are those of the K most recent saves; save is a no-op when
\* keep_checkpoint == 0 or when step equals the last saved step.
C37_KeepsMostRecent == []C37_Retention /\ [][C37_NoOp]_vars

----------------------------------------------------------------------------
(* Claims about the optimizer *)

\* the call the step makes
Called == calls'[Len(calls')]

C38_Start == calls = <<>> => (_training_step = 1 /\ _decay_step = 1)

C38_Step ==
    Len(calls') = Len(calls) + 1 =>
        /\ Called.op = "step" =>
              /\ _training_step' = _training_step + 1
              /\ _decay_step' = _decay_step + 1
        /\ Called.op = "state_dict" =>
              /\ _training_step' = _training_step
              /\ _decay_step' = _decay_step
              /\ \E sd \in snapshots' :
                    /\ sd["training_step"] = _training_step
                    /\ sd["decay_step"] = _decay_step
        /\ Called.op = "load_state_dict" =>
              /\ _training_step' = Called.sd["training_step"]
              /\ IF "decay_step" \in DOMAIN Called.sd
                 THEN _decay_step' = Called.sd["decay_step"]
                 ELSE _decay_step' = _decay_step

\* C38: an Optimizer starts with training_step = decay_step = 1 and each
\* step() increases both by exactly 1; load_state_dict(state_dict()) restores
\* both counters to the saved values, and loading a state that has no
\* decay_step restores training_step and leaves decay_step unchanged.
C38_StepCounters == []C38_Start /\ [][C38_Step]_vars

C38_Witness ==
    /\ Len(calls) = 4
    /\ calls[1].op = "step"
    /\ calls[2].op = "state_dict"
    /\ calls[3].op = "step"
    /\ calls[4].op = "load_state_dict"
    /\ "decay_step" \notin DOMAIN calls[4].sd
    /\ calls[4].sd["training_step"] = 2
    /\ _training_step = 2
    /\ _decay_step = 3

----------------------------------------------------------------------------
(* Claims about the ErrorHandler *)

\* the children that have put their failure on the queue
FailedChildren == {c \in Children : child[c] = "failed"}

----------------------------------------------------------------------------
(* Specifications *)

InitMix == MixInit /\ BatchIdle /\ IterIdle /\ BuildIdle /\ RelayIdle /\ RestIdle

NextMix ==
    \/ Construct /\ UNCHANGED <<batchVars, iterVars, buildVars, relayVars, restVars>>
    \/ SeqNext /\ UNCHANGED <<batchVars, iterVars, buildVars, relayVars, restVars>>
    \/ WeightedNext /\ UNCHANGED <<batchVars, iterVars, buildVars, relayVars, restVars>>

SpecMix == InitMix /\ [][NextMix]_vars

InitBatch == BatchInit /\ MixIdle /\ IterIdle /\ BuildIdle /\ RelayIdle /\ RestIdle

NextBatch ==
    \/ BatchFeed /\ UNCHANGED <<mixVars, iterVars, buildVars, relayVars, restVars>>
    \/ BatchEnd /\ UNCHANGED <<mixVars, iterVars, buildVars, relayVars, restVars>>

SpecBatch == InitBatch /\ [][NextBatch]_vars

InitIter == IterInit /\ BuildIdle /\ RelayIdle /\ RestIdle

NextIter ==
    \/ InitDatasets
    \/ IterDraw

SpecIter == InitIter /\ [][NextIter]_vars

\* the datasets get initialised and the consumer keeps asking for the next
\* batch, so the mixer is drawn from again and again
SpecIterFair ==
    /\ SpecIter
    /\ WF_vars(InitDatasets)
    /\ WF_mixVars(SeqNext)
    /\ WF_mixVars(Len(flushed) < MaxBuckets /\ WeightedStep)

InitBuild == BuildInit /\ OnlyTask /\ MixIdle /\ IterIdle /\ RelayIdle /\ RestIdle

NextBuild ==
    \/ \E o \in DOMAIN procs : New(o) /\ UNCHANGED <<mixVars, batchVars, iterVars, relayVars, restVars>>
    \/ \E o \in DOMAIN procs : Build(o) /\ UNCHANGED <<mixVars, batchVars, iterVars, relayVars, restVars>>
    \/ \E o \in DOMAIN procs, w \in 0..MaxWorkers :
          WorkerInit(o, w) /\ UNCHANGED <<mixVars, batchVars, iterVars, relayVars, restVars>>

SpecBuild == InitBuild /\ [][NextBuild]_vars

InitRelay == RelayInit /\ MixIdle /\ BatchIdle /\ IterIdle /\ BuildIdle /\ RestIdle

NextRelay ==
    \/ RelayNext /\ UNCHANGED <<mixVars, batchVars, iterVars, buildVars, restVars>>
    \/ RelayEnd /\ UNCHANGED <<mixVars, batchVars, iterVars, buildVars, restVars>>

SpecRelay == InitRelay /\ [][NextRelay]_vars

InitPasses == IterInitFrom(PassConfigs) /\ BuildIdle /\ RelayIdle /\ RestIdle
NextPasses ==
    \/ InitDatasets
    \/ IterDraw
    \/ IterAgain
SpecPasses == InitPasses /\ [][NextPasses]_vars

InitRamp == IterInitFrom(LongRampConfigs) /\ BuildIdle /\ RelayIdle /\ RestIdle

\* the datasets get initialised and the consumer keeps asking for the next
\* batch
SpecRamp ==
    /\ InitRamp
    /\ [][NextIter]_vars
    /\ WF_vars(InitDatasets)
    /\ WF_mixVars(SeqNext)
    /\ WF_mixVars(Len(flushed) < MaxBuckets /\ WeightedStep)

InitWorkers ==
    WorkersInit /\ RelayIdle /\ GatherIdle /\ RegistryIdle /\ HandlerIdle /\ ToolIdle

NextWorkers ==
    \/ WorkerInitDatasets
    \/ IterEarly
    \/ WorkerDraw
    \/ \E w \in 0..MaxWorkers : Switch(w)

SpecWorkers == InitWorkers /\ [][NextWorkers]_vars

InitGather ==
    GatherInit /\ MixIdle /\ BatchIdle /\ IterIdle /\ BuildIdle /\ RelayIdle
        /\ WorkerIdle /\ RegistryIdle /\ HandlerIdle /\ ToolIdle

NextGather ==
    \/ \E r \in 0..MaxWorld :
          r \in GatherRanks /\ GatherCall(r)
              /\ UNCHANGED <<mixVars, batchVars, iterVars, buildVars, relayVars, workerVars, registryVars, handlerVars, toolVars>>
    \/ AllGather /\ UNCHANGED <<mixVars, batchVars, iterVars, buildVars, relayVars, workerVars, registryVars, handlerVars, toolVars>>
    \/ \E r \in 0..MaxWorld :
          r \in GatherRanks /\ GatherDecode(r)
              /\ UNCHANGED <<mixVars, batchVars, iterVars, buildVars, relayVars, workerVars, registryVars, handlerVars, toolVars>>

SpecGather == InitGather /\ [][NextGather]_vars

InitHeader ==
    HeaderInit /\ MixIdle /\ BatchIdle /\ IterIdle /\ BuildIdle /\ RelayIdle
        /\ WorkerIdle /\ RegistryIdle /\ HandlerIdle /\ ToolIdle

NextHeader ==
    \/ HeaderCall /\ UNCHANGED <<mixVars, batchVars, iterVars, buildVars, relayVars, workerVars, registryVars, handlerVars, toolVars>>
    \/ AllGather /\ UNCHANGED <<mixVars, batchVars, iterVars, buildVars, relayVars, workerVars, registryVars, handlerVars, toolVars>>
    \/ HeaderDecode /\ UNCHANGED <<mixVars, batchVars, iterVars, buildVars, relayVars, workerVars, registryVars, handlerVars, toolVars>>

SpecHeader == InitHeader /\ [][NextHeader]_vars

InitSaver ==
    SaverInit /\ OptimIdle /\ MixIdle /\ BatchIdle /\ IterIdle /\ BuildIdle
        /\ RelayIdle /\ WorkerIdle /\ GatherIdle /\ RegistryIdle /\ HandlerIdle

NextSaver ==
    \E step \in 1..MaxStep :
        Save(step) /\ UNCHANGED <<mixVars, batchVars, iterVars, buildVars, relayVars, workerVars, gatherVars, registryVars, handlerVars, optimVars>>

SpecSaver == InitSaver /\ [][NextSaver]_vars

InitOptim ==
    OptimInit /\ SaverIdle /\ MixIdle /\ BatchIdle /\ IterIdle /\ BuildIdle
        /\ RelayIdle /\ WorkerIdle /\ GatherIdle /\ RegistryIdle /\ HandlerIdle

NextOptim ==
    \/ OptimStep /\ UNCHANGED <<mixVars, batchVars, iterVars, buildVars, relayVars, workerVars, gatherVars, registryVars, handlerVars, saverVars>>
    \/ OptimStateDict /\ UNCHANGED <<mixVars, batchVars, iterVars, buildVars, relayVars, workerVars, gatherVars, registryVars, handlerVars, saverVars>>
    \/ \E sd \in Loadable :
          OptimLoad(sd) /\ UNCHANGED <<mixVars, batchVars, iterVars, buildVars, relayVars, workerVars, gatherVars, registryVars, handlerVars, saverVars>>

SpecOptim == InitOptim /\ [][NextOptim]_vars

InitRegistry ==
    RegistryInit /\ MixIdle /\ BatchIdle /\ IterIdle /\ BuildIdle /\ RelayIdle
        /\ WorkerIdle /\ GatherIdle /\ HandlerIdle /\ ToolIdle

NextRegistry ==
    \/ \E name \in TransformNames \ {"unknown"}, cls \in Classes :
          Register(name, cls)
              /\ UNCHANGED <<mixVars, batchVars, iterVars, buildVars, relayVars, workerVars, gatherVars, handlerVars, toolVars>>
    \/ \E names \in SeqsUpTo(TransformNames, MaxRequested) :
          GetTransformsCls(names)
              /\ UNCHANGED <<mixVars, batchVars, iterVars, buildVars, relayVars, workerVars, gatherVars, handlerVars, toolVars>>

SpecRegistry == InitRegistry /\ [][NextRegistry]_vars

pipelineVars == <<mixVars, batchVars, iterVars, buildVars, relayVars,
                  workerVars, gatherVars, registryVars, toolVars>>

InitHandler ==
    HandlerInit /\ MixIdle /\ BatchIdle /\ IterIdle /\ BuildIdle /\ RelayIdle
        /\ WorkerIdle /\ GatherIdle /\ RegistryIdle /\ ToolIdle

\* the steps of the listener thread and of the signal handler
ListenerStep == ListenerGet \/ ListenerPut \/ ListenerKill
HandlerStep == HandlerKills \/ HandlerRaises

NextHandler ==
    \/ \E c \in Children : Spawn(c) /\ UNCHANGED pipelineVars
    \/ \E c \in Children : AddChild(c) /\ UNCHANGED pipelineVars
    \/ \E c \in Children : ChildFails(c) /\ UNCHANGED pipelineVars
    \/ ListenerGet /\ UNCHANGED pipelineVars
    \/ ListenerPut /\ UNCHANGED pipelineVars
    \/ ListenerKill /\ UNCHANGED pipelineVars
    \/ HandlerKills /\ UNCHANGED pipelineVars
    \/ HandlerRaises /\ UNCHANGED pipelineVars

SpecHandler == InitHandler /\ [][NextHandler]_vars

\* the listener thread gets to run, and the pending signal is delivered to
\* the main thread, which runs the handler
SpecHandlerFair ==
    /\ SpecHandler
    /\ WF_handlerVars(ListenerStep)
    /\ WF_handlerVars(HandlerStep)

====
